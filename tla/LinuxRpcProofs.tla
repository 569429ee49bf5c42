--------------------------- MODULE LinuxRpcProofs ---------------------------
(***************************************************************************)
(* Proofs about the two components of linux_rpc that share a process:      *)
(* RpcChannel, for any finite set of threads, any recipients, any number   *)
(* of calls and with or without the bound on timeouts; ThreadPoolExecutor  *)
(* for any set of tasks.  No step of one touches the other.                *)
(***************************************************************************)
EXTENDS RpcChannel, ThreadPoolExecutor, FiniteSetTheorems, TLAPS

(***************************************************************************)
(* RpcChannel: the inductive invariant.                                    *)
(***************************************************************************)

(* Where a caller and a ping task can be, and where a caller is that has   *)
(* dropped the last reference.                                             *)
CallPlaces == {"idle", "connect", "connected", "started", "ready", "sent", "recv", "died",
               "release", "delete", "gone"}
PingPlaces == {"none", "ready", "sent", "recv", "died", "ended", "wild"}
Leaving == {"release", "delete", "gone"}

Sockets == Threads \cup {None}
AgentState == [pc : CallPlaces \cup PingPlaces, id : Nat, sentOn : Sockets, on : Sockets]
Messages == [cmd : {"INVOKE", "PING", "RELEASE"}, id : Nat]

Waits(a) == agent[a].pc \in {"sent", "recv"}

(* Nothing is under way on a socket.                                       *)
NoTask(s) == \A task \in BagToSet(pool) : task[1] # s
Quiet(s) == inbox[s] = <<>> /\ replies[s] = <<>> /\ NoTask(s)

(* The types of the agents, of the rest of the proxy, of what is on the    *)
(* wires and in the pool, and of the stub's Looper.                        *)
AgentsOK ==
    /\ agent \in [Agents -> AgentState]
    /\ \A t \in Threads : /\ agent[Caller(t)].pc \in CallPlaces
                          /\ agent[Pinger(t)].pc \in PingPlaces
    /\ calls \in Nat /\ \A a \in Agents : agent[a].id <= calls

ProxyOK ==
    /\ m_cSocketfd \in Sockets
    /\ m_pPingTask # None => \E t \in Threads : m_pPingTask = Pinger(t)
    /\ m_Lock \in Agents \cup {None}
    /\ m_pOrgue = None \/ m_pOrgue \subseteq Recipients
    /\ held \subseteq Threads
    /\ timedOut \subseteq Threads
    /\ signalled \subseteq Threads \X {"pinger"}

WiresOK ==
    /\ inbox \in [Threads -> Seq(Messages)]
    /\ replies \in [Threads -> Seq(Messages)]
    /\ IsABag(pool) /\ BagToSet(pool) \subseteq Threads \X Messages

ServerOK ==
    /\ stub \in {"alive", "deleted", "dead"}
    /\ backlog \in Seq(Threads) /\ watched \subseteq Threads
    /\ edges \subseteq Threads \cup {Listen} /\ polled \subseteq Threads \cup {Listen}
    /\ connfd \in Sockets

(* Who has dropped its reference is in no call, and the last one to leave  *)
(* finds all others gone.                                                  *)
Left ==
    /\ \A t \in Threads \ held : agent[Caller(t)].pc \in {"idle"} \cup Leaving
    /\ \A t \in Threads : agent[Caller(t)].pc \in Leaving =>
          held = {} /\ \A u \in Threads \ {t} : agent[Caller(u)].pc = "idle"

(* Who waits for a reply has the lock and has sent something.  It may read *)
(* another socket than it sent on, but only one that has been replaced.    *)
Working ==
    /\ \A a \in Agents : Waits(a) => m_Lock = a /\ agent[a].sentOn \in Threads
    /\ \A a \in Agents : agent[a].pc = "recv" =>
          /\ agent[a].on \in Threads
          /\ agent[a].on # agent[a].sentOn => m_cSocketfd # agent[a].sentOn
    /\ m_cSocketfd = None => \A t \in Threads :
          agent[Caller(t)].pc \in {"idle", "connect", "connected"} \cup Leaving

(* A socket that has not become the proxy's is used by nobody.             *)
Fresh(s) == m_cSocketfd = None \/ agent[Caller(s)].pc \in {"connect", "connected"}
Unused == \A s \in Threads : Fresh(s) =>
    /\ m_cSocketfd # s /\ Quiet(s) /\ agent[Pinger(s)].pc = "none"
    /\ \A a \in Agents : Waits(a) => agent[a].sentOn # s
    /\ \A a \in Agents : agent[a].pc = "recv" => agent[a].on # s
    /\ agent[Caller(s)].pc # "connected" => ~Open(s)
    /\ s \notin edges \cup polled

(* A connection waits to be accepted or is watched, never both; while the  *)
(* stub lives the other end of every socket in use exists.                 *)
Connections ==
    /\ \A i, j \in 1 .. Len(backlog) : backlog[i] = backlog[j] => i = j
    /\ \A i \in 1 .. Len(backlog) : backlog[i] \notin watched
    /\ stub = "alive" =>
        /\ m_cSocketfd # None => Open(m_cSocketfd)
        /\ \A t \in Threads : agent[Caller(t)].pc = "connected" => Open(t)
        /\ \A a \in Agents : Waits(a) => Open(agent[a].sentOn)
        /\ \A a \in Agents : agent[a].pc = "recv" => Open(agent[a].on)
    /\ stub = "dead" => /\ backlog = <<>> /\ watched = {}
                        /\ BagToSet(pool) = {} /\ \A s \in Threads : inbox[s] = <<>>

(* The ping task that m_pPingTask names has been started, and has ended or *)
(* been signalled when the proxy is gone; there is none that is not named, *)
(* but for the one that is being started.  No other is signalled, and none *)
(* before the proxy is gone.                                               *)
Pinging ==
    /\ m_pPingTask # None => agent[m_pPingTask].pc # "none"
    /\ \A t \in Threads : agent[Pinger(t)].pc # "none" =>
         m_pPingTask # None \/ agent[Caller(t)].pc = "started"
    /\ \A t \in Threads : agent[Caller(t)].pc = "started" => agent[Pinger(t)].pc # "none"
    /\ Gone /\ m_pPingTask # None =>
         agent[m_pPingTask].pc = "ended" \/ m_pPingTask \in signalled
    /\ signalled \subseteq {m_pPingTask}
    /\ ~Gone => signalled = {} /\ \A t \in Threads : agent[Pinger(t)].pc # "wild"

(* Before RELEASE is sent there is none, and the stub is not deleted; it   *)
(* is sent on the socket that is the proxy's last.                         *)
ReleaseIn(s) ==
    \/ <<s, Release>> \in BagToSet(pool)
    \/ \E i \in 1 .. Len(inbox[s]) : inbox[s][i] = Release
Unreleased ==
    /\ ~ReleaseSent => stub # "deleted" /\ \A s \in Threads : ~ReleaseIn(s)
    /\ \A s \in Threads : ReleaseIn(s) => s = m_cSocketfd

(* Before RELEASE is sent, on a socket on which nobody has given up: there *)
(* is nothing, or the one message of who waits for it, as a request, as a  *)
(* task or as a reply, or nobody will look at the socket any more.         *)
Stale(s) ==
    /\ m_cSocketfd \notin {None, s}
    /\ agent[Caller(s)].pc \notin {"connect", "connected"}
    /\ \A a \in Agents : agent[a].pc = "recv" => agent[a].on # s
Only(s, m) ==
    \/ inbox[s] = <<m>> /\ replies[s] = <<>> /\ NoTask(s)
    \/ /\ inbox[s] = <<>> /\ replies[s] = <<>>
       /\ <<s, m>> \in BagToSet(pool) /\ pool[<<s, m>>] = 1
       /\ \A task \in BagToSet(pool) : task[1] = s => task = <<s, m>>
    \/ inbox[s] = <<>> /\ replies[s] = <<m>> /\ NoTask(s)
Asked(s) == \E a \in Agents : Waits(a) /\ agent[a].sentOn = s /\ Only(s, Message(a))
OneRequest ==
    ~ReleaseSent => \A s \in Threads \ timedOut : Quiet(s) \/ Stale(s) \/ Asked(s)

(* Something is under way on the socket of whoever waits, given up on or   *)
(* not ...                                                                 *)
Answerable ==
    stub = "alive" => \A a \in Agents : Waits(a) => ~Quiet(agent[a].sentOn)

(* ... and the Looper has an event for what has arrived, but for sockets   *)
(* that were not accepted while others are watched.                        *)
Noticed ==
    stub = "alive" =>
        /\ \A s \in watched : inbox[s] # <<>> => s \in edges \cup polled
        /\ backlog # <<>> /\ watched = {} => Listen \in edges \cup polled
        /\ \A s \in Threads : inbox[s] # <<>> => Open(s)

(* Until somebody gives up, a call that has arrived has a caller waiting,  *)
(* and a ping a ping task, unless it was sent along with RELEASE or after. *)
SentIn(s, cmd) ==
    \/ \E i \in 1 .. Len(inbox[s]) : inbox[s][i].cmd = cmd
    \/ \E task \in BagToSet(pool) : task[1] = s /\ task[2].cmd = cmd
Awaited(s, cmd) == \E a \in Agents :
    Waits(a) /\ agent[a].sentOn = s /\ Message(a).cmd = cmd
Late == crowded \/ pingedLate
Timely(cmd) == cmd = "PING" => ~Late
Invoked == timedOut = {} =>
    \A s \in Threads : \A cmd \in {"INVOKE", "PING"} :
        SentIn(s, cmd) /\ Timely(cmd) => Awaited(s, cmd)

(* Nobody waits when RELEASE is sent, or afterwards, but a late ping.      *)
NoneWaits ==
    /\ ~ReleaseSent => ~Late
    /\ ReleaseSent => \A a \in Agents : Waits(a) => Late /\ a[2] = "pinger"

(* RELEASE, once sent, stands before everything that is sent after it.     *)
ReleaseFirst(s) ==
    \/ inbox[s] # <<>> /\ Head(inbox[s]) = Release
    \/ <<s, Release>> \in BagToSet(pool)
Released ==
    ReleaseSent /\ m_cSocketfd # None /\ stub = "alive" /\ ~crowded
        /\ m_cSocketfd \notin timedOut => ReleaseFirst(m_cSocketfd)

(* What the Looper was told of connections is behind it when it reads what *)
(* is sent on the proxy's last socket after the first message: all have    *)
(* connected before that message, so that the events of the connections    *)
(* are polled no later than the message's own.                             *)
Connecting == \E t \in Threads : agent[Caller(t)].pc \in {"connect", "connected"}
HeardOf(s) ==
    /\ agent[Caller(s)].pc \notin {"started", "ready"}
    /\ inbox[s] = <<>> \/ Head(inbox[s]) = Release
Accepted ==
    /\ stub = "alive" /\ ~Connecting /\ m_cSocketfd # None =>
        /\ m_cSocketfd \in polled \/ HeardOf(m_cSocketfd) => Listen \notin edges
        /\ m_cSocketfd \in polled /\ HeardOf(m_cSocketfd) => Listen \notin polled
    /\ stub = "deleted" \/ (\E s \in Threads : <<s, Release>> \in BagToSet(pool)) =>
        Listen \notin edges \cup polled /\ connfd = None

IInv ==
    /\ AgentsOK /\ ProxyOK /\ WiresOK /\ ServerOK
    /\ Left /\ Working /\ Unused /\ Connections /\ Pinging /\ Unreleased
    /\ OneRequest /\ Answerable /\ Noticed /\ Invoked /\ NoneWaits /\ Released

(***************************************************************************)
(* RpcChannel: the agents.                                                 *)
(***************************************************************************)

(* The callers and the ping tasks are different agents, one of each for a  *)
(* thread.                                                                 *)
LEMMA Names ==
    /\ \A t \in Threads : Caller(t) \in Agents /\ Pinger(t) \in Agents
    /\ \A t \in Threads : Caller(t)[2] = "caller" /\ Pinger(t)[2] = "pinger"
    /\ \A t, u \in Threads : /\ Caller(t) # Pinger(u)
                             /\ Caller(t) = Caller(u) => t = u
                             /\ Pinger(t) = Pinger(u) => t = u
    /\ \A a \in Agents : \/ \E t \in Threads : a = Caller(t)
                         \/ \E t \in Threads : a = Pinger(t)
    /\ None \notin Agents /\ None \notin Threads /\ Listen \notin Threads
BY NamesAssumption DEF Agents, Caller, Pinger

(* A message is put into the bag.                                          *)
LEMMA BagPut ==
    ASSUME NEW B, IsABag(B), NEW x
    PROVE  LET C == B (+) SetToBag({x}) IN
           /\ IsABag(C) /\ BagToSet(C) = BagToSet(B) \cup {x}
           /\ x \notin BagToSet(B) => C[x] = 1
           /\ \A y \in BagToSet(B) : y # x => C[y] = B[y]
BY DEF IsABag, BagToSet, SetToBag, (+)

(* A message is taken out of the bag.                                      *)
LEMMA BagTake ==
    ASSUME NEW B, IsABag(B), NEW x \in BagToSet(B)
    PROVE  LET C == B (-) SetToBag({x}) IN
           /\ IsABag(C) /\ BagToSet(C) \subseteq BagToSet(B)
           /\ BagToSet(B) \ {x} \subseteq BagToSet(C)
           /\ B[x] = 1 => x \notin BagToSet(C)
           /\ \A y \in BagToSet(C) : y # x => C[y] = B[y]
BY DEF IsABag, BagToSet, SetToBag, (-)

(* The empty bag has none.                                                 *)
LEMMA NoTasks == IsABag(EmptyBag) /\ BagToSet(EmptyBag) = {}
BY DEF IsABag, BagToSet, SetToBag, EmptyBag

(* One agent moves, the others stay.                                      *)
MovesTo(a, p) ==
    /\ agent' \in [Agents -> AgentState] /\ agent'[a].pc = p
    /\ \A b \in Agents \ {a} : agent'[b] = agent[b]

(* One agent moves and keeps what it knows.                                *)
LEMMA GotoMoves ==
    ASSUME AgentsOK, NEW a \in Agents, NEW p \in CallPlaces \cup PingPlaces, Goto(a, p)
    PROVE  /\ MovesTo(a, p)
           /\ agent'[a].id = agent[a].id /\ agent'[a].sentOn = agent[a].sentOn
           /\ agent'[a].on = agent[a].on
<1>1. PICK r \in AgentState : r = agent[a]
  BY DEF AgentsOK
<1>2. agent' = [agent EXCEPT ![a] = [r EXCEPT !.pc = p]]
  BY <1>1 DEF Goto
<1>3. [r EXCEPT !.pc = p] \in AgentState
  BY <1>1 DEF AgentState
<1> QED
  BY <1>1, <1>2, <1>3 DEF AgentsOK, MovesTo, AgentState

(* One agent moves and forgets.                                            *)
LEMMA ReturnMoves ==
    ASSUME AgentsOK, NEW a \in Agents, NEW p \in CallPlaces \cup PingPlaces, Return(a, p)
    PROVE  MovesTo(a, p) /\ agent'[a].id = 0
<1>1. At(p) \in AgentState /\ At(p).pc = p /\ At(p).id = 0
  BY DEF At, AgentState, Sockets
<1> QED
  BY <1>1 DEF Return, AgentsOK, MovesTo

(* Where the agents are stays in order when one of them moves.             *)
LEMMA AgentsStayOK ==
    ASSUME AgentsOK, NEW a \in Agents, NEW p, MovesTo(a, p),
           calls' \in Nat, calls <= calls', agent'[a].id <= calls',
           \/ (\E t \in Threads : a = Caller(t)) /\ p \in CallPlaces
           \/ (\E t \in Threads : a = Pinger(t)) /\ p \in PingPlaces
    PROVE  AgentsOK'
<1>1. agent' \in [Agents -> AgentState]
  BY DEF MovesTo
<1>2. ASSUME NEW t \in Threads
      PROVE  agent'[Caller(t)].pc \in CallPlaces /\ agent'[Pinger(t)].pc \in PingPlaces
  BY Names DEF MovesTo, AgentsOK
<1>3. ASSUME NEW b \in Agents
      PROVE  agent'[b].id <= calls'
  BY DEF MovesTo, AgentsOK, AgentState
<1> QED
  BY <1>1, <1>2, <1>3 DEF AgentsOK

(* An agent moves that neither has sent anything nor sends anything.       *)
LEMMA AgentMovesAside ==
    ASSUME IInv, NEW a \in Agents, NEW p, MovesTo(a, p),
           ~Waits(a), p \notin {"sent", "recv"},
           p = "connect" => m_cSocketfd = None, p # "connected", agent[a].pc # "connected",
           agent[a].pc # "none", agent[a].pc \in {"delete", "gone"} <=> p \in {"delete", "gone"},
           UNCHANGED <<m_cSocketfd, server, wires, history>>
    PROVE  Unused' /\ Connections' /\ Unreleased' /\ OneRequest' /\ Answerable' /\ Noticed'
           /\ Invoked' /\ NoneWaits' /\ Released'
<1> USE DEF MovesTo, server, wires, history
<1>1. /\ \A b \in Agents : Waits(b)' <=> Waits(b)
      /\ \A b \in Agents : Waits(b) => b # a /\ agent'[b] = agent[b]
      /\ \A b \in Agents : agent'[b].pc = "recv" <=> agent[b].pc = "recv"
      /\ \A b \in Agents : agent[b].pc = "recv" => agent'[b] = agent[b]
  BY DEF Waits
<1>2. /\ ReleaseSent' <=> ReleaseSent
      /\ \A t \in Threads : agent'[Caller(t)].pc = "connected" <=> agent[Caller(t)].pc = "connected"
      /\ \A t \in Threads : agent[Pinger(t)].pc = "none" => agent'[Pinger(t)].pc = "none"
      /\ \A t \in Threads : Fresh(t)' => Fresh(t)
  BY Names DEF ReleaseSent, Fresh
<1>3. /\ \A s : NoTask(s)' <=> NoTask(s)
      /\ \A s : Quiet(s)' <=> Quiet(s)
      /\ \A s : Open(s)' <=> Open(s)
      /\ \A s : ReleaseIn(s)' <=> ReleaseIn(s)
      /\ \A s, cmd : SentIn(s, cmd)' <=> SentIn(s, cmd)
      /\ \A s : ReleaseFirst(s)' <=> ReleaseFirst(s)
  BY DEF NoTask, Quiet, Open, ReleaseIn, SentIn, ReleaseFirst
<1>4. Unused'
  BY <1>1, <1>2, <1>3 DEF IInv, Unused
<1>5. Connections'
  BY <1>1, <1>2, <1>3 DEF IInv, Connections
<1>6. Unreleased'
  BY <1>2, <1>3 DEF IInv, Unreleased
<1>7. OneRequest'
  <2>1. \A s \in Threads : Asked(s) => Asked(s)'
    <3>1. \A b \in Agents : Waits(b) => Message(b)' = Message(b)
      BY <1>1 DEF Message
    <3>2. \A s, m : Only(s, m) => Only(s, m)'
      BY DEF Only, NoTask
    <3> QED
      BY <1>1, <3>1, <3>2 DEF Asked
  <2>2. \A s \in Threads : Stale(s) => Stale(s)'
    BY <1>1, Names DEF Stale
  <2> QED
    BY <1>2, <1>3, <2>1, <2>2 DEF IInv, OneRequest
<1>8. Answerable'
  BY <1>1, <1>3 DEF IInv, Answerable
<1>9. Noticed'
  BY <1>3 DEF IInv, Noticed
<1>10. Invoked'
  <2>1. \A s \in Threads : \A cmd : Awaited(s, cmd) => Awaited(s, cmd)'
    BY <1>1, Names DEF Awaited, Message
  <2> QED
    BY <1>3, <2>1 DEF IInv, Invoked, Timely, Late
<1>11. NoneWaits' /\ Released'
  BY <1>1, <1>2, <1>3 DEF IInv, NoneWaits, Late, Released
<1> QED
  BY <1>4, <1>5, <1>6, <1>7, <1>8, <1>9, <1>10, <1>11

(* What the proxy does without a message leaves the types of the wires.    *)
LEMMA WiresStay ==
    ASSUME IInv, UNCHANGED <<server, wires>>
    PROVE  WiresOK' /\ ServerOK'
BY DEF IInv, WiresOK, ServerOK, server, wires

(* The same for a caller that does not hold the lock and starts no ping    *)
(* task.                                                                   *)
LEMMA CallerMovesAside ==
    ASSUME IInv, NEW t \in Threads, NEW p, MovesTo(Caller(t), p),
           agent[Caller(t)].pc \in {"idle", "connect", "ready"},
           p \in {"idle", "connect", "ready", "release"},
           p = "connect" => m_cSocketfd = None, p = "ready" => m_cSocketfd # None,
           calls' \in Nat, calls <= calls', agent'[Caller(t)].id <= calls',
           held' \subseteq held, Left',
           UNCHANGED <<m_cSocketfd, m_pPingTask, m_Lock, m_pOrgue, signalled, server, wires,
                       history>>
    PROVE  IInv'
<1> DEFINE a == Caller(t)
<1>1. a \in Agents /\ agent[a].pc \in {"idle", "connect", "ready"} /\ MovesTo(a, p)
  BY Names
<1>2. UNCHANGED <<m_cSocketfd, server, wires, history>>
  OBVIOUS
<1> HIDE DEF a
<1>3. /\ Unused' /\ Connections' /\ Unreleased' /\ OneRequest' /\ Answerable' /\ Noticed'
      /\ Invoked' /\ NoneWaits' /\ Released'
  BY <1>1, <1>2, AgentMovesAside DEF Waits
<1>4. AgentsOK'
  BY <1>1, AgentsStayOK DEF IInv, CallPlaces, a
<1>5. ProxyOK' /\ WiresOK' /\ ServerOK'
  BY WiresStay DEF IInv, ProxyOK, history
<1>6. Working'
  <2>1. \A b \in Agents : Waits(b)' \/ agent'[b].pc = "recv" => agent'[b] = agent[b]
    BY <1>1 DEF MovesTo, Waits
  <2> QED
    BY <1>1, <2>1, Names DEF IInv, Working, Waits, MovesTo, Leaving, a
<1>7. Pinging'
  <2>1. Gone' <=> Gone
    BY <1>1, Names DEF Gone, MovesTo, a
  <2> QED
    BY <1>1, <2>1, Names DEF IInv, Pinging, ProxyOK, MovesTo, a
<1> QED
  BY <1>3, <1>4, <1>5, <1>6, <1>7 DEF IInv

(* A call begins, with an identity of its own.                             *)
LEMMA CallMoves ==
    ASSUME IInv, NEW t \in Threads, Call(t)
    PROVE  /\ MovesTo(Caller(t), IF m_cSocketfd = None THEN "connect" ELSE "ready")
           /\ agent'[Caller(t)].id = calls + 1
<1> DEFINE a == Caller(t)
           p == IF m_cSocketfd = None THEN "connect" ELSE "ready"
<1>1. a \in Agents /\ calls + 1 \in Nat /\ p \in CallPlaces
  BY Names DEF IInv, AgentsOK, CallPlaces
<1>2. PICK r \in AgentState : r = agent[a]
  BY <1>1 DEF IInv, AgentsOK
<1>3. agent' = [agent EXCEPT ![a] = [r EXCEPT !.id = calls + 1, !.pc = p]]
  BY <1>2 DEF Call
<1> HIDE DEF p
<1>4. [r EXCEPT !.id = calls + 1, !.pc = p] \in AgentState
  BY <1>1, <1>2 DEF AgentState
<1>5. MovesTo(a, p) /\ agent'[a].id = calls + 1
  BY <1>1, <1>2, <1>3, <1>4 DEF IInv, AgentsOK, MovesTo, AgentState
<1> QED
  BY <1>5 DEF p

(* A call begins: it connects only while there is no socket.               *)
LEMMA CallStep ==
    ASSUME IInv, NEW t \in Threads, Call(t)
    PROVE  IInv'
<1> DEFINE a == Caller(t)
           p == IF m_cSocketfd = None THEN "connect" ELSE "ready"
<1>1. a \in Agents /\ agent[a].pc = "idle" /\ t \in held
  BY Names DEF Call
<1>2. calls + 1 \in Nat /\ p \in CallPlaces /\ p \in {"connect", "ready"}
  BY DEF IInv, AgentsOK, CallPlaces
<1>3. MovesTo(a, p) /\ agent'[a].id = calls + 1
  BY CallMoves
<1>4. /\ UNCHANGED <<m_cSocketfd, m_pPingTask, m_Lock, m_pOrgue, signalled, server, wires,
                     history>>
      /\ held' = held /\ calls' = calls + 1
  BY DEF Call
<1>5. Left'
  BY <1>1, <1>2, <1>3, <1>4, Names DEF IInv, Left, Leaving, MovesTo
<1> QED
  BY <1>1, <1>2, <1>3, <1>4, <1>5, CallerMovesAside DEF IInv, AgentsOK

(* A call that cannot send returns without having waited.                  *)
LEMMA SendFailsStep ==
    ASSUME IInv, NEW t \in Threads, SendFails(t)
    PROVE  IInv'
<1>1. Caller(t) \in Agents /\ agent[Caller(t)].pc = "ready"
  BY Names DEF SendFails
<1>2. MovesTo(Caller(t), "idle") /\ agent'[Caller(t)].id = 0
  BY <1>1, ReturnMoves DEF IInv, SendFails, CallPlaces
<1>3. UNCHANGED <<m_cSocketfd, m_pPingTask, m_Lock, m_pOrgue, held, calls, signalled, server,
                  wires, history>>
  BY DEF SendFails
<1>4. Left'
  BY <1>1, <1>2, <1>3, Names DEF IInv, Left, Leaving, MovesTo
<1> QED
  BY <1>1, <1>2, <1>3, <1>4, CallerMovesAside DEF IInv, AgentsOK

(* Who drops the last reference finds the others idle, since they hold     *)
(* none.                                                                   *)
LEMMA DropStep ==
    ASSUME IInv, NEW t \in Threads, Drop(t)
    PROVE  IInv'
<1> DEFINE p == IF held = {t} THEN "release" ELSE "idle"
<1>1. /\ Caller(t) \in Agents /\ agent[Caller(t)].pc = "idle"
      /\ t \in held /\ held' = held \ {t}
      /\ p \in {"release", "idle"} /\ (p = "release" => held = {t})
  BY Names DEF Drop
<1>2. MovesTo(Caller(t), p) /\ agent'[Caller(t)].id = agent[Caller(t)].id
  BY <1>1, GotoMoves DEF IInv, Drop, CallPlaces
<1>3. UNCHANGED <<m_cSocketfd, m_pPingTask, m_Lock, m_pOrgue, calls, signalled, server, wires,
                  history>>
  BY DEF Drop
<1> HIDE DEF p
<1>4. Left'
  <2>1. \A u \in Threads \ {t} : /\ agent'[Caller(u)] = agent[Caller(u)]
                                 /\ agent[Caller(u)].pc \notin Leaving
    BY <1>1, <1>2, Names DEF IInv, Left, MovesTo
  <2>2. p = "release" => held' = {} /\ \A u \in Threads \ {t} : agent[Caller(u)].pc = "idle"
    BY <1>1, <2>1 DEF IInv, Left
  <2> QED
    BY <1>1, <1>2, <2>1, <2>2, Names DEF IInv, Left, Leaving, MovesTo
<1> QED
  BY <1>1, <1>2, <1>3, <1>4, CallerMovesAside DEF IInv, AgentsOK

(* The ping task that was started is named.                                *)
LEMMA PingTaskStartedStep ==
    ASSUME IInv, NEW t \in Threads, PingTaskStarted(t)
    PROVE  IInv'
<1> DEFINE a == Caller(t)
<1>1. a \in Agents /\ agent[a].pc = "started"
  BY Names DEF PingTaskStarted
<1>2. MovesTo(a, "ready") /\ agent'[a].id = agent[a].id
  BY <1>1, GotoMoves DEF IInv, PingTaskStarted, CallPlaces
<1>3. UNCHANGED <<m_cSocketfd, server, wires, history>>
  BY DEF PingTaskStarted
<1>4. /\ UNCHANGED <<m_cSocketfd, m_Lock, m_pOrgue, held, timedOut, calls, signalled>>
      /\ m_pPingTask' = Pinger(t)
  BY DEF PingTaskStarted, history
<1> HIDE DEF a
<1>5. /\ Unused' /\ Connections' /\ Unreleased' /\ OneRequest' /\ Answerable' /\ Noticed'
      /\ Invoked' /\ NoneWaits' /\ Released'
  BY <1>1, <1>2, <1>3, AgentMovesAside DEF Waits
<1>6. AgentsOK'
  BY <1>1, <1>2, <1>4, AgentsStayOK DEF IInv, AgentsOK, CallPlaces, a
<1>7. ProxyOK' /\ WiresOK' /\ ServerOK'
  BY <1>3, <1>4, WiresStay DEF IInv, ProxyOK
<1>8. Left'
  BY <1>1, <1>2, <1>4, Names DEF IInv, Left, Leaving, MovesTo, a
<1>9. Working'
  <2>1. \A b \in Agents : Waits(b)' \/ agent'[b].pc = "recv" => agent'[b] = agent[b]
    BY <1>1, <1>2 DEF MovesTo, Waits
  <2>2. m_cSocketfd # None
    BY <1>1 DEF IInv, Working, Leaving, a
  <2> QED
    BY <1>1, <1>2, <1>4, <2>1, <2>2, Names DEF IInv, Working, Waits, MovesTo, a
<1>10. Pinging'
  <2>1. ~Gone /\ ~Gone'
    BY <1>1, <1>2, Names DEF IInv, Left, Leaving, Gone, MovesTo, a
  <2> QED
    BY <1>1, <1>2, <1>4, <2>1, Names DEF IInv, Pinging, ProxyOK, MovesTo, a
<1> QED
  BY <1>5, <1>6, <1>7, <1>8, <1>9, <1>10 DEF IInv

(* Nothing is said of the process's crash, and little of its recipients.   *)
LEMMA RecipientsApart ==
    ASSUME IInv, m_pOrgue' = None \/ m_pOrgue' \subseteq Recipients,
           UNCHANGED <<m_cSocketfd, m_pPingTask, m_Lock, held, agent, calls, signalled, server,
                       wires, history>>
    PROVE  IInv'
<1> USE DEF IInv, server, wires, history, Waits, ReleaseSent, NoTask, Quiet, Open
<1>1. AgentsOK' /\ ProxyOK' /\ WiresOK' /\ ServerOK'
  BY DEF AgentsOK, ProxyOK, WiresOK, ServerOK
<1>2. Left' /\ Working'
  BY DEF Left, Working
<1>3. Unused'
  BY DEF Unused, Fresh
<1>4. Connections'
  BY DEF Connections
<1>5. Pinging'
  BY DEF Pinging, Gone
<1>6. Unreleased'
  BY DEF Unreleased, ReleaseIn
<1>7. OneRequest'
  BY DEF OneRequest, Stale, Asked, Only, Message
<1>8. Answerable' /\ Noticed'
  BY DEF Answerable, Noticed
<1>9. Invoked'
  BY DEF Invoked, SentIn, Awaited, Message, Timely, Late
<1>10. NoneWaits' /\ Released'
  BY DEF NoneWaits, Late, Released, ReleaseFirst
<1> QED
  BY <1>1, <1>2, <1>3, <1>4, <1>5, <1>6, <1>7, <1>8, <1>9, <1>10

(* The process's end leaves everything else.                               *)
LEMMA BrokenPipeStep ==
    ASSUME IInv, NEW a \in Agents, BrokenPipe(a)
    PROVE  IInv'
BY RecipientsApart DEF BrokenPipe, IInv, ProxyOK

(* Recipients are linked and unlinked.                                     *)
LEMMA LinkStep ==
    ASSUME IInv, NEW t \in Threads, NEW r \in Recipients, LinkToDeath(t, r) \/ UnlinkToDeath(t, r)
    PROVE  IInv'
<1>1. m_pOrgue' \subseteq Recipients
  BY DEF LinkToDeath, UnlinkToDeath, IInv, ProxyOK
<1>2. UNCHANGED <<m_cSocketfd, m_pPingTask, m_Lock, held, agent, calls, signalled, server, wires,
                  history>>
  BY DEF LinkToDeath, UnlinkToDeath
<1> QED
  BY <1>1, <1>2, RecipientsApart

(* While a caller is in a call nobody has dropped the last reference.      *)
LEMMA InCall ==
    ASSUME IInv, NEW t \in Threads, agent[Caller(t)].pc \notin {"idle"} \cup Leaving
    PROVE  /\ t \in held /\ ~ReleaseSent /\ ~Gone
           /\ \A u \in Threads : agent[Caller(u)].pc \notin Leaving
<1>1. t \in held /\ \A u \in Threads : agent[Caller(u)].pc \notin Leaving
  BY DEF IInv, Left
<1> QED
  BY <1>1 DEF ReleaseSent, Gone, Leaving

(* An agent that has given up returns or ends.                             *)
LEMMA StubDiedStep ==
    ASSUME IInv, NEW a \in Agents, StubDied(a)
    PROVE  IInv'
<1>1. CASE m_pOrgue = None
  BY <1>1, RecipientsApart DEF StubDied, IInv, ProxyOK
<1>2. CASE m_pOrgue # None
  <2> DEFINE p == IF a[2] = "caller" THEN "idle" ELSE "ended"
  <2>1. /\ agent[a].pc = "died"
        /\ \/ (\E t \in Threads : a = Caller(t)) /\ p = "idle"
           \/ (\E t \in Threads : a = Pinger(t)) /\ p = "ended"
    <3>1. CASE \E t \in Threads : a = Caller(t)
      BY <3>1, Names DEF StubDied
    <3>2. CASE \E t \in Threads : a = Pinger(t)
      BY <3>2, Names DEF StubDied
    <3> QED
      BY <3>1, <3>2, Names
  <2>2. Return(a, p) /\ m_pOrgue' = {} /\ m_Lock' = IF m_Lock = a THEN None ELSE m_Lock
    BY <1>2 DEF StubDied
  <2>3. UNCHANGED <<m_cSocketfd, m_pPingTask, held, calls, signalled, server, wires, history>>
    BY DEF StubDied
  <2> HIDE DEF p
  <2>4. MovesTo(a, p) /\ agent'[a].id = 0
    BY <2>1, <2>2, ReturnMoves DEF IInv, CallPlaces, PingPlaces
  <2>5. /\ Unused' /\ Connections' /\ Unreleased' /\ OneRequest' /\ Answerable' /\ Noticed'
        /\ Invoked' /\ NoneWaits' /\ Released'
    <3>1. UNCHANGED <<m_cSocketfd, server, wires, history>>
      BY <2>3
    <3> QED
      BY <2>1, <2>4, <3>1, AgentMovesAside DEF Waits
  <2>6. AgentsOK'
    BY <2>1, <2>3, <2>4, AgentsStayOK DEF IInv, AgentsOK, CallPlaces, PingPlaces
  <2>7. ProxyOK' /\ WiresOK' /\ ServerOK'
    BY <2>2, <2>3, WiresStay DEF IInv, ProxyOK, history
  <2>8. Left'
    BY <2>1, <2>3, <2>4, Names DEF IInv, Left, Leaving, MovesTo
  <2>9. Working'
    <3>1. \A b \in Agents : Waits(b)' \/ agent'[b].pc = "recv" => b # a /\ agent'[b] = agent[b]
      BY <2>1, <2>4 DEF MovesTo, Waits
    <3> QED
      BY <2>1, <2>2, <2>3, <2>4, <3>1, Names DEF IInv, Working, Waits, MovesTo
  <2>10. Pinging'
    <3>1. Gone' <=> Gone
      BY <2>1, <2>4, Names DEF Gone, MovesTo
    <3>2. \A t \in Threads : /\ agent'[Pinger(t)].pc # "none" <=> agent[Pinger(t)].pc # "none"
                             /\ agent'[Caller(t)].pc = "started" <=> agent[Caller(t)].pc = "started"
                             /\ agent[Pinger(t)].pc = "ended" => agent'[Pinger(t)].pc = "ended"
                             /\ agent'[Pinger(t)].pc = "wild" => agent[Pinger(t)].pc = "wild"
      BY <2>1, <2>4, Names DEF MovesTo
    <3> QED
      BY <2>3, <3>1, <3>2, Names DEF IInv, Pinging, ProxyOK
  <2> QED
    BY <2>5, <2>6, <2>7, <2>8, <2>9, <2>10 DEF IInv
<1> QED
  BY <1>1, <1>2

(* A new connection waits to be accepted, with an event for it; its socket *)
(* was unused.                                                             *)
LEMMA ConnectStep ==
    ASSUME IInv, NEW t \in Threads, Connect(t)
    PROVE  IInv'
<1>1. /\ Caller(t) \in Agents /\ agent[Caller(t)].pc = "connect"
      /\ t \in held /\ ~ReleaseSent /\ ~Gone
      /\ UNCHANGED <<m_cSocketfd, m_pPingTask, m_Lock, m_pOrgue, held, calls, signalled>>
      /\ UNCHANGED <<stub, connfd, watched, polled, pool, inbox, replies>>
      /\ UNCHANGED <<timedOut, crowded, pingedLate>>
  BY Names, InCall DEF Connect, Leaving, wires, history
<1>2. CASE stub # "alive"
  <2>1. MovesTo(Caller(t), "idle") /\ agent'[Caller(t)].id = 0
    BY <1>1, <1>2, ReturnMoves DEF IInv, Connect, CallPlaces
  <2>2. UNCHANGED <<m_cSocketfd, m_pPingTask, m_Lock, m_pOrgue, signalled, server, wires, history>>
    BY <1>2 DEF Connect, server
  <2>3. Left'
    BY <1>1, <2>1, Names DEF IInv, Left, Leaving, MovesTo
  <2> QED
    BY <1>1, <2>1, <2>2, <2>3, CallerMovesAside DEF IInv, AgentsOK
<1>3. CASE stub = "alive"
  <2> DEFINE a == Caller(t)
  <2>1. /\ MovesTo(a, "connected") /\ agent'[a].id = agent[a].id
        /\ backlog' = Append(backlog, t) /\ edges' = edges \cup {Listen}
    BY <1>1, <1>3, GotoMoves DEF IInv, Connect, CallPlaces
  <2>2. Fresh(t) /\ ~Open(t)
    BY <1>1 DEF IInv, Unused, Fresh
  <2>3. \A s : Open(s)' <=> Open(s) \/ s = t
    BY <1>1, <2>1 DEF Open, IInv, ServerOK
  <2>4. \A s : /\ NoTask(s)' <=> NoTask(s)
               /\ Quiet(s)' <=> Quiet(s)
               /\ ReleaseIn(s)' <=> ReleaseIn(s)
               /\ \A cmd : SentIn(s, cmd)' <=> SentIn(s, cmd)
    BY <1>1 DEF NoTask, Quiet, ReleaseIn, SentIn
  <2> HIDE DEF a
  <2>5. /\ \A b \in Agents : Waits(b)' <=> Waits(b)
        /\ \A b \in Agents : Waits(b) => b # a /\ agent'[b] = agent[b]
        /\ \A b \in Agents : agent'[b].pc = "recv" <=> agent[b].pc = "recv"
        /\ \A b \in Agents : agent[b].pc = "recv" => agent'[b] = agent[b]
    BY <1>1, <2>1 DEF Waits, MovesTo, a
  <2>6. /\ ~ReleaseSent' /\ ~Gone'
        /\ \A s \in Threads : agent'[Pinger(s)] = agent[Pinger(s)]
        /\ \A s \in Threads \ {t} : agent'[Caller(s)] = agent[Caller(s)]
        /\ \A s \in Threads : Fresh(s)' => Fresh(s)
    BY <1>1, <2>1, Names DEF ReleaseSent, Gone, Fresh, MovesTo, a
  <2>7. AgentsOK'
    BY <1>1, <2>1, AgentsStayOK DEF IInv, AgentsOK, CallPlaces, a
  <2>8. ProxyOK' /\ WiresOK'
    BY <1>1 DEF IInv, ProxyOK, WiresOK
  <2>9. ServerOK'
    BY <1>1, <2>1 DEF IInv, ServerOK
  <2>10. Left'
    BY <1>1, <2>1, <2>6, Names DEF IInv, Left, Leaving, MovesTo, a
  <2>11. Working'
    BY <1>1, <2>1, <2>5, <2>6, Names DEF IInv, Working, MovesTo, a
  <2>12. Unused'
    BY <1>1, <2>1, <2>3, <2>4, <2>5, <2>6, Names DEF IInv, Unused, MovesTo, a
  <2>13. Connections'
    <3>1. /\ \A i, j \in 1 .. Len(backlog') : backlog'[i] = backlog'[j] => i = j
          /\ \A i \in 1 .. Len(backlog') : backlog'[i] \notin watched
      BY <2>1, <2>2 DEF IInv, Connections, ServerOK, Open
    <3> QED
      BY <1>1, <1>3, <2>3, <2>5, <2>6, <3>1, Names DEF IInv, Connections
  <2>14. Pinging'
    BY <1>1, <2>1, <2>6 DEF IInv, Pinging, ProxyOK, MovesTo, a
  <2>15. Unreleased'
    BY <1>1, <2>4 DEF IInv, Unreleased
  <2>16. OneRequest'
    <3>1. \A s \in Threads : Asked(s) => Asked(s)'
      <4>1. \A b \in Agents : Waits(b) => Message(b)' = Message(b)
        BY <2>5 DEF Message
      <4>2. \A s, m : Only(s, m) => Only(s, m)'
        BY <1>1 DEF Only, NoTask
      <4> QED
        BY <2>5, <4>1, <4>2 DEF Asked
    <3>2. \A s \in Threads : Stale(s) => Stale(s)'
      BY <1>1, <2>5, <2>6 DEF Stale, a
    <3> QED
      BY <1>1, <2>4, <3>1, <3>2 DEF IInv, OneRequest
  <2>17. Answerable'
    BY <1>1, <2>4, <2>5 DEF IInv, Answerable
  <2>18. Noticed'
    BY <1>1, <2>1, <2>3 DEF IInv, Noticed
  <2>19. Invoked'
    <3>1. \A s \in Threads : \A cmd : Awaited(s, cmd) => Awaited(s, cmd)'
      BY <2>5, Names DEF Awaited, Message
    <3> QED
      BY <1>1, <2>4, <3>1 DEF IInv, Invoked, Timely, Late
  <2>20. NoneWaits' /\ Released'
    BY <1>1, <2>6 DEF IInv, NoneWaits, Late, Released
  <2> QED
    BY <2>7, <2>8, <2>9, <2>10, <2>11, <2>12, <2>13, <2>14, <2>15, <2>16, <2>17, <2>18,
       <2>19, <2>20 DEF IInv
<1> QED
  BY <1>2, <1>3

(* What is on the wires stays there.                                       *)
LEMMA SameWires ==
    ASSUME UNCHANGED <<inbox, replies, pool>>
    PROVE  /\ \A s : NoTask(s)' <=> NoTask(s)
           /\ \A s : Quiet(s)' <=> Quiet(s)
           /\ \A s : ReleaseIn(s)' <=> ReleaseIn(s)
           /\ \A s, cmd : SentIn(s, cmd)' <=> SentIn(s, cmd)
           /\ \A s : ReleaseFirst(s)' <=> ReleaseFirst(s)
           /\ \A s, m : Only(s, m)' <=> Only(s, m)
BY DEF NoTask, Quiet, ReleaseIn, SentIn, ReleaseFirst, Only

(* A socket becomes the proxy's.  The one before, if any, is stale unless  *)
(* somebody waits on it; a ping task is started when none is named, with   *)
(* the name still to come.                                                 *)
LEMMA ConnectedStep ==
    ASSUME IInv, NEW t \in Threads, Connected(t)
    PROVE  IInv'
<1> DEFINE a == Caller(t)
           p == IF m_pPingTask = None THEN "started" ELSE "ready"
           q == Pinger(t)
<1>1. /\ a \in Agents /\ q \in Agents /\ a # q /\ agent[a].pc = "connected"
      /\ t \in held /\ ~ReleaseSent /\ ~Gone
      /\ m_cSocketfd' = t
      /\ UNCHANGED <<m_pPingTask, m_Lock, m_pOrgue, held, calls, signalled, server, wires, history>>
  BY Names, InCall DEF Connected, Leaving
<1>2. /\ Fresh(t) /\ m_cSocketfd # t /\ agent[q].pc = "none"
      /\ \A b \in Agents : Waits(b) => agent[b].sentOn # t
      /\ \A b \in Agents : agent[b].pc = "recv" => agent[b].on # t
  BY <1>1 DEF IInv, Unused, Fresh
<1>3. /\ agent' \in [Agents -> AgentState]
      /\ agent'[a].pc = p /\ agent'[a].id = agent[a].id
      /\ agent'[q].pc = (IF m_pPingTask = None THEN "ready" ELSE "none")
      /\ agent'[q].id = agent[q].id
      /\ \A b \in Agents \ {a, q} : agent'[b] = agent[b]
  <2>1. CASE m_pPingTask = None
    <3>1. PICK r \in AgentState : r = agent[a]
      BY <1>1 DEF IInv, AgentsOK
    <3>2. PICK r2 \in AgentState : r2 = agent[q]
      BY <1>1 DEF IInv, AgentsOK
    <3>3. agent' = [agent EXCEPT ![a] = [r EXCEPT !.pc = "started"], ![q] = [r2 EXCEPT !.pc = "ready"]]
      BY <1>1, <2>1, <3>1, <3>2 DEF Connected, IInv, AgentsOK
    <3>4. [r EXCEPT !.pc = "started"] \in AgentState /\ [r2 EXCEPT !.pc = "ready"] \in AgentState
      BY <3>1, <3>2 DEF AgentState, CallPlaces
    <3> QED
      BY <1>1, <2>1, <3>1, <3>2, <3>3, <3>4 DEF IInv, AgentsOK, AgentState
  <2>2. CASE m_pPingTask # None
    <3>1. Goto(a, "ready") /\ "ready" \in CallPlaces \cup PingPlaces
      BY <2>2 DEF Connected, CallPlaces
    <3> HIDE DEF a
    <3>2. MovesTo(a, "ready") /\ agent'[a].id = agent[a].id
      BY <1>1, <3>1, GotoMoves DEF IInv
    <3> HIDE DEF q
    <3> QED
      BY <1>1, <1>2, <2>2, <3>2 DEF MovesTo
  <2> QED
    BY <2>1, <2>2
<1>4. p \in {"started", "ready"}
  OBVIOUS
<1> HIDE DEF a, q
<1>5. /\ \A b \in Agents : Waits(b)' <=> Waits(b)
      /\ \A b \in Agents : Waits(b) => b # a /\ agent'[b] = agent[b]
      /\ \A b \in Agents : agent'[b].pc = "recv" <=> agent[b].pc = "recv"
      /\ \A b \in Agents : agent[b].pc = "recv" => agent'[b] = agent[b]
  BY <1>1, <1>2, <1>3 DEF Waits
<1>6. /\ \A s \in Threads \ {t} : /\ agent'[Pinger(s)] = agent[Pinger(s)]
                                  /\ agent'[Caller(s)] = agent[Caller(s)]
      /\ t \in Threads /\ t # None
  BY <1>1, <1>3, Names DEF a, q
<1>7. ~ReleaseSent' /\ ~Gone'
  BY <1>1, <1>3, <1>4, <1>6 DEF ReleaseSent, Gone, a
<1>8. \A s \in Threads : Fresh(s)' => s # t /\ Fresh(s)
  BY <1>1, <1>3, <1>4, <1>6 DEF Fresh, a
<1>9. /\ UNCHANGED <<inbox, replies, pool, stub, watched, backlog, edges, polled, timedOut, crowded, pingedLate>>
      /\ \A s : Open(s)' <=> Open(s)
      /\ \A s : Quiet(s)' <=> Quiet(s)
      /\ \A s : ReleaseIn(s)' <=> ReleaseIn(s)
      /\ \A s, cmd : SentIn(s, cmd)' <=> SentIn(s, cmd)
      /\ \A s, m : Only(s, m)' <=> Only(s, m)
  BY <1>1, SameWires DEF server, wires, history, Open
<1>10. AgentsOK'
  <2>1. \A b \in Agents : agent'[b].id <= calls
    BY <1>3 DEF IInv, AgentsOK
  <2>2. \A s \in Threads : agent'[Caller(s)].pc \in CallPlaces /\ agent'[Pinger(s)].pc \in PingPlaces
    BY <1>1, <1>3, <1>4, <1>6 DEF IInv, AgentsOK, CallPlaces, PingPlaces, a, q
  <2> QED
    BY <1>1, <1>3, <2>1, <2>2 DEF IInv, AgentsOK
<1>11. ProxyOK' /\ WiresOK' /\ ServerOK'
  BY <1>1, <1>6, <1>9, WiresStay DEF IInv, ProxyOK, Sockets
<1>12. Left'
  BY <1>1, <1>3, <1>4, <1>6 DEF IInv, Left, Leaving, a
<1>13. Working'
  BY <1>1, <1>2, <1>5, <1>6 DEF IInv, Working, Waits
<1>14. Unused'
  BY <1>1, <1>5, <1>6, <1>8, <1>9 DEF IInv, Unused
<1>15. Connections'
  BY <1>1, <1>3, <1>4, <1>5, <1>6, <1>9 DEF IInv, Connections, a
<1>16. Pinging'
  BY <1>1, <1>2, <1>3, <1>6, <1>7, Names DEF IInv, Pinging, ProxyOK, a, q
<1>17. Unreleased'
  BY <1>1, <1>9 DEF IInv, Unreleased
<1>18. OneRequest'
  <2>1. \A s \in Threads : Asked(s) => Asked(s)'
    BY <1>5, <1>9 DEF Asked, Message
  <2>2. \A s \in Threads : Stale(s) => Stale(s)'
    BY <1>1, <1>5, <1>6 DEF Stale, a
  <2> QED
    BY <1>1, <1>9, <2>1, <2>2 DEF IInv, OneRequest
<1>19. Answerable' /\ Noticed'
  BY <1>1, <1>5, <1>9 DEF IInv, Answerable, Noticed
<1>20. Invoked'
  <2>1. \A s \in Threads : \A cmd : Awaited(s, cmd) => Awaited(s, cmd)'
    BY <1>5, Names DEF Awaited, Message
  <2> QED
    BY <1>9, <2>1 DEF IInv, Invoked, Timely, Late
<1>21. NoneWaits' /\ Released'
  BY <1>1, <1>7, <1>9 DEF IInv, NoneWaits, Late, Released
<1> QED
  BY <1>10, <1>11, <1>12, <1>13, <1>14, <1>15, <1>16, <1>17, <1>18, <1>19, <1>20, <1>21 DEF IInv

(* An agent that sends or waits has a socket, and is no thread that left.  *)
LEMMA HasSocket ==
    ASSUME IInv, NEW a \in Agents, agent[a].pc \in {"ready", "sent", "recv"}
    PROVE  m_cSocketfd \in Threads
<1>1. CASE \E t \in Threads : a = Caller(t)
  BY <1>1 DEF IInv, Working, Leaving, ProxyOK, Sockets
<1>2. CASE \E t \in Threads : a = Pinger(t)
  BY <1>2 DEF IInv, Unused, Fresh, ProxyOK, Sockets
<1> QED
  BY <1>1, <1>2, Names

(* An agent goes on to wait.                                               *)
LEMMA EnterRecvMoves ==
    ASSUME IInv, NEW a \in Agents, EnterRecv(a)
    PROVE  /\ MovesTo(a, "recv") /\ agent'[a].on = m_cSocketfd
           /\ agent'[a].id = agent[a].id /\ agent'[a].sentOn = agent[a].sentOn
<1>1. PICK r \in AgentState : r = agent[a]
  BY DEF IInv, AgentsOK
<1>2. agent' = [agent EXCEPT ![a] = [r EXCEPT !.pc = "recv", !.on = m_cSocketfd]]
  BY <1>1 DEF EnterRecv
<1>3. [r EXCEPT !.pc = "recv", !.on = m_cSocketfd] \in AgentState
  BY <1>1, HasSocket DEF AgentState, CallPlaces, Sockets, EnterRecv
<1> QED
  BY <1>1, <1>2, <1>3 DEF IInv, AgentsOK, MovesTo, AgentState

(* The socket is read again: another one only if it took the place of the  *)
(* first.                                                                  *)
LEMMA EnterRecvStep ==
    ASSUME IInv, NEW a \in Agents, EnterRecv(a)
    PROVE  IInv'
<1>1. /\ agent[a].pc = "sent" /\ m_cSocketfd \in Threads /\ m_cSocketfd # None
      /\ UNCHANGED <<m_cSocketfd, m_pPingTask, m_Lock, m_pOrgue, held, calls, signalled>>
      /\ UNCHANGED <<server, wires, history>>
  BY HasSocket, Names DEF EnterRecv
<1>2. /\ MovesTo(a, "recv") /\ agent'[a].on = m_cSocketfd
      /\ agent'[a].id = agent[a].id /\ agent'[a].sentOn = agent[a].sentOn
  BY EnterRecvMoves
<1>3. /\ \A b \in Agents : Waits(b)' <=> Waits(b)
      /\ \A b \in Agents : /\ agent'[b].sentOn = agent[b].sentOn
                           /\ agent'[b].id = agent[b].id
      /\ \A b \in Agents : agent'[b].pc = "recv" =>
           agent'[b].on = m_cSocketfd \/ (agent[b].pc = "recv" /\ agent'[b].on = agent[b].on)
  <2>1. \A b \in Agents \ {a} : agent'[b] = agent[b]
    BY <1>2 DEF MovesTo
  <2>2. agent'[a].pc = "recv"
    BY <1>2 DEF MovesTo
  <2> QED
    BY <1>1, <1>2, <2>1, <2>2 DEF Waits
<1>4. /\ ReleaseSent' <=> ReleaseSent
      /\ Gone' <=> Gone
      /\ \A s \in Threads : agent'[Caller(s)].pc # agent[Caller(s)].pc =>
           agent'[Caller(s)].pc = "recv" /\ agent[Caller(s)].pc = "sent"
      /\ \A s \in Threads : agent'[Pinger(s)].pc # agent[Pinger(s)].pc =>
           agent'[Pinger(s)].pc = "recv" /\ agent[Pinger(s)].pc = "sent"
      /\ \A s \in Threads : Fresh(s)' <=> Fresh(s)
  BY <1>1, <1>2, Names DEF ReleaseSent, Gone, Fresh, MovesTo
<1>5. /\ UNCHANGED <<inbox, replies, pool, stub, watched, backlog, edges, polled, timedOut, crowded, pingedLate>>
      /\ \A s : Open(s)' <=> Open(s)
      /\ \A s : Quiet(s)' <=> Quiet(s)
      /\ \A s : ReleaseIn(s)' <=> ReleaseIn(s)
      /\ \A s, cmd : SentIn(s, cmd)' <=> SentIn(s, cmd)
      /\ \A s : ReleaseFirst(s)' <=> ReleaseFirst(s)
      /\ \A s, m : Only(s, m)' <=> Only(s, m)
  BY <1>1, SameWires DEF server, wires, history, Open
<1>6. AgentsOK'
  <2>1. agent[a].id <= calls /\ calls \in Nat /\ agent' \in [Agents -> AgentState]
    BY <1>2 DEF IInv, AgentsOK, MovesTo
  <2> QED
    BY <1>1, <1>2, <2>1, Names, AgentsStayOK DEF IInv, CallPlaces, PingPlaces
<1>7. ProxyOK' /\ WiresOK' /\ ServerOK'
  BY <1>1, <1>5, WiresStay DEF IInv, ProxyOK
<1>8. Left'
  BY <1>1, <1>4 DEF IInv, Left, Leaving
<1>9. Working'
  <2>1. \A b \in Agents : agent'[b].pc = "recv" =>
          /\ agent'[b].on \in Threads
          /\ agent'[b].on # agent'[b].sentOn => m_cSocketfd # agent'[b].sentOn
    BY <1>1, <1>3 DEF IInv, Working
  <2> QED
    BY <1>1, <1>3, <2>1 DEF IInv, Working
<1>10. Unused'
  <2>1. \A s \in Threads : Fresh(s) => \A b \in Agents : agent'[b].pc = "recv" => agent'[b].on # s
    BY <1>3 DEF IInv, Unused
  <2>2. \A s \in Threads : Fresh(s) => \A b \in Agents : Waits(b)' => agent'[b].sentOn # s
    BY <1>3 DEF IInv, Unused
  <2> QED
    BY <1>1, <1>4, <1>5, <2>1, <2>2 DEF IInv, Unused
<1>11. Connections'
  BY <1>1, <1>3, <1>4, <1>5 DEF IInv, Connections
<1>12. Pinging'
  <2>1. \A s \in Threads : /\ agent[Pinger(s)].pc = "ended" => agent'[Pinger(s)].pc = "ended"
                           /\ agent'[Pinger(s)].pc = "wild" => agent[Pinger(s)].pc = "wild"
    BY <1>4
  <2> QED
    BY <1>1, <1>4, <2>1 DEF IInv, Pinging, ProxyOK
<1>13. Unreleased' /\ NoneWaits' /\ Released'
  BY <1>1, <1>3, <1>4, <1>5 DEF IInv, Unreleased, NoneWaits, Late, Released
<1>14. OneRequest'
  <2>1. \A s \in Threads : Asked(s) => Asked(s)'
    BY <1>3, <1>5 DEF Asked, Message
  <2>2. \A s \in Threads : Stale(s) => Stale(s)'
    BY <1>1, <1>3, <1>4 DEF Stale
  <2> QED
    BY <1>4, <1>5, <2>1, <2>2 DEF IInv, OneRequest
<1>15. Answerable' /\ Noticed'
  BY <1>1, <1>3, <1>5 DEF IInv, Answerable, Noticed
<1>16. Invoked'
  <2>1. \A s \in Threads : \A cmd : Awaited(s, cmd) => Awaited(s, cmd)'
    BY <1>3, Names DEF Awaited, Message
  <2> QED
    BY <1>5, <2>1 DEF IInv, Invoked, Timely, Late
<1> QED
  BY <1>6, <1>7, <1>8, <1>9, <1>10, <1>11, <1>12, <1>13, <1>14, <1>15, <1>16 DEF IInv

(***************************************************************************)
(* RpcChannel: requests and replies.                                       *)
(***************************************************************************)

(* One agent at a time waits.                                              *)
LEMMA Alone ==
    ASSUME IInv, NEW a \in Agents
    PROVE  /\ Waits(a) => m_Lock = a /\ \A b \in Agents : Waits(b) => b = a
           /\ m_Lock = None => ~Waits(a)
BY Names DEF IInv, Working

(* Who waits for the answer to a call, or to a ping in time, does so       *)
(* before RELEASE is sent.                                                 *)
LEMMA WaitsInTime ==
    ASSUME IInv, NEW a \in Agents, Waits(a), Timely(Message(a).cmd)
    PROVE  ~ReleaseSent
<1>1. a[2] = "pinger" => Message(a).cmd = "PING"
  BY DEF Message, Ping
<1> QED
  BY <1>1 DEF IInv, NoneWaits, Timely

(* The reply of an agent that waits is its own, and nothing else is under  *)
(* way on its socket, unless somebody gave up on that socket.              *)
LEMMA Answered ==
    ASSUME IInv, NEW a \in Agents, agent[a].pc = "recv", ~ReleaseSent,
           agent[a].on \notin timedOut, replies[agent[a].on] # <<>>
    PROVE  /\ agent[a].sentOn = agent[a].on
           /\ inbox[agent[a].on] = <<>> /\ NoTask(agent[a].on)
           /\ replies[agent[a].on] = <<Message(a)>>
<1> DEFINE s == agent[a].on
<1>1. s \in Threads \ timedOut /\ Waits(a)
  BY DEF IInv, Working, Waits
<1>2. ~Quiet(s) /\ ~Stale(s)
  BY DEF Quiet, Stale
<1> HIDE DEF s
<1>3. Asked(s)
  BY <1>1, <1>2 DEF IInv, OneRequest
<1>4. agent[a].sentOn = s /\ Only(s, Message(a))
  BY <1>1, <1>3, Alone DEF Asked
<1> QED
  BY <1>4 DEF Only, s

(* An agent stops waiting.                                                 *)
LEMMA WaitEnds ==
    ASSUME IInv, NEW a \in Agents, agent[a].pc = "recv",
           NEW p, MovesTo(a, p), agent'[a].id = 0,
           \/ (\E t \in Threads : a = Caller(t)) /\ p \in {"idle", "died"}
           \/ (\E t \in Threads : a = Pinger(t)) /\ p \in {"ready", "died"},
           m_Lock' \in {None, m_Lock},
           timedOut \subseteq timedOut', timedOut' \subseteq Threads,
           replies' \in [Threads -> Seq(Messages)],
           \A s \in Threads : replies[s] = <<>> => replies'[s] = <<>>,
           UNCHANGED <<m_cSocketfd, m_pPingTask, m_pOrgue, held, calls, signalled, server, inbox>>,
           UNCHANGED <<crowded, pingedLate>>
    PROVE  /\ \A b \in Agents : ~Waits(b)' /\ agent'[b].pc # "recv"
           /\ \A s \in Threads : Quiet(s) => Quiet(s)'
           /\ \A s \in Threads : Stale(s) => Stale(s)'
           /\ ReleaseSent' <=> ReleaseSent
           /\ AgentsOK' /\ ProxyOK' /\ WiresOK' /\ ServerOK' /\ Left' /\ Working' /\ Unused'
           /\ Connections' /\ Pinging' /\ Unreleased' /\ Answerable' /\ Noticed' /\ NoneWaits'
           /\ Released'
<1>1. m_cSocketfd \in Threads /\ m_cSocketfd # None
  BY HasSocket, Names
<1>2. \A b \in Agents : ~Waits(b)' /\ agent'[b].pc # "recv"
  <2>1. \A b \in Agents \ {a} : ~Waits(b)
    BY Alone DEF Waits
  <2> QED
    BY <2>1 DEF Waits, MovesTo
<1>3. /\ ReleaseSent' <=> ReleaseSent
      /\ Gone' <=> Gone
      /\ \A s \in Threads : Fresh(s)' => Fresh(s)
      /\ \A s \in Threads : agent'[Caller(s)].pc # agent[Caller(s)].pc =>
           agent'[Caller(s)].pc \in {"idle", "died"} /\ agent[Caller(s)].pc = "recv"
      /\ \A s \in Threads : agent'[Pinger(s)].pc # agent[Pinger(s)].pc =>
           agent'[Pinger(s)].pc \in {"ready", "died"} /\ agent[Pinger(s)].pc = "recv"
  BY Names DEF ReleaseSent, Gone, Fresh, MovesTo
<1>4. UNCHANGED <<stub, connfd, backlog, watched, edges, polled, pool>>
  BY DEF server
<1>5. /\ \A s : Open(s)' <=> Open(s)
      /\ \A s : NoTask(s)' <=> NoTask(s)
      /\ \A s : ReleaseIn(s)' <=> ReleaseIn(s)
      /\ \A s : ReleaseFirst(s)' <=> ReleaseFirst(s)
      /\ \A s \in Threads : Quiet(s) => Quiet(s)'
  BY <1>4 DEF Open, NoTask, ReleaseIn, ReleaseFirst, Quiet
<1>6. \A s \in Threads : Stale(s) => Stale(s)'
  BY <1>1, <1>2, <1>3 DEF Stale
<1>7. AgentsOK'
  <2>1. calls' \in Nat /\ calls <= calls' /\ 0 <= calls'
    BY DEF IInv, AgentsOK
  <2> QED
    BY <2>1, AgentsStayOK DEF IInv, CallPlaces, PingPlaces
<1>8. ProxyOK'
  BY DEF IInv, ProxyOK
<1>9. WiresOK' /\ ServerOK'
  BY <1>4 DEF IInv, WiresOK, ServerOK
<1>10. Left'
  BY <1>3 DEF IInv, Left, Leaving
<1>11. Working'
  BY <1>1, <1>2 DEF Working
<1>12. Unused'
  <2>1. \A s \in Threads : agent'[Caller(s)].pc # "connected" => agent[Caller(s)].pc # "connected"
    BY <1>3
  <2>2. \A s \in Threads : agent[Pinger(s)].pc = "none" => agent'[Pinger(s)].pc = "none"
    BY <1>3
  <2> QED
    BY <1>2, <1>3, <1>4, <1>5, <2>1, <2>2 DEF IInv, Unused
<1>13. Connections'
  <2>1. \A s \in Threads : agent'[Caller(s)].pc = "connected" => agent[Caller(s)].pc = "connected"
    BY <1>3
  <2>2. Connections /\ UNCHANGED <<m_cSocketfd, inbox>>
    BY DEF IInv
  <2> QED
    BY ONLY <1>2, <1>4, <1>5, <2>1, <2>2 DEF Connections
<1>14. Pinging'
  <2>1. \A s \in Threads : /\ agent'[Pinger(s)].pc # "none" <=> agent[Pinger(s)].pc # "none"
                           /\ agent'[Caller(s)].pc = "started" <=> agent[Caller(s)].pc = "started"
                           /\ agent[Pinger(s)].pc = "ended" => agent'[Pinger(s)].pc = "ended"
                           /\ agent'[Pinger(s)].pc = "wild" => agent[Pinger(s)].pc = "wild"
    BY <1>3
  <2> QED
    BY <1>3, <2>1 DEF IInv, Pinging, ProxyOK
<1>15. Unreleased' /\ NoneWaits' /\ Released'
  BY <1>2, <1>3, <1>4, <1>5 DEF IInv, Unreleased, NoneWaits, Late, Released
<1>16. Answerable' /\ Noticed'
  BY <1>2, <1>4, <1>5 DEF IInv, Answerable, Noticed
<1> QED
  BY <1>2, <1>3, <1>5, <1>6, <1>7, <1>8, <1>9, <1>10, <1>11, <1>12, <1>13, <1>14, <1>15, <1>16

(* The socket of an agent that waits for the reply on another one.         *)
LEMMA Replaced ==
    ASSUME IInv, NEW a \in Agents, agent[a].pc = "recv", agent[a].on # agent[a].sentOn
    PROVE  /\ m_cSocketfd \notin {None, agent[a].sentOn}
           /\ agent[Caller(agent[a].sentOn)].pc \notin {"connect", "connected"}
<1>1. agent[a].sentOn \in Threads /\ Waits(a) /\ m_cSocketfd # agent[a].sentOn
  BY DEF IInv, Working, Waits
<1>2. ~Fresh(agent[a].sentOn)
  BY <1>1 DEF IInv, Unused
<1> QED
  BY <1>1, <1>2 DEF Fresh

(* A reply is taken.  It was the only thing under way on its socket, which *)
(* is quiet then; and if it was read from another socket, the one it was   *)
(* sent on is stale.                                                       *)
LEMMA ReceiveStep ==
    ASSUME IInv, NEW a \in Agents, Receive(a)
    PROVE  IInv'
<1> DEFINE s == agent[a].on
           p == IF a[2] = "caller" THEN "idle" ELSE "ready"
<1>1. /\ agent[a].pc = "recv" /\ s \in Threads /\ replies[s] # <<>>
      /\ replies' = [replies EXCEPT ![s] = <<>>]
      /\ m_Lock' = None /\ Return(a, p)
  BY DEF Receive, IInv, Working
<1>2. /\ UNCHANGED <<m_cSocketfd, m_pPingTask, m_pOrgue, held, calls, signalled, server, inbox>>
      /\ UNCHANGED <<timedOut, crowded, pingedLate>>
  BY DEF Receive, history
<1>3. \/ (\E t \in Threads : a = Caller(t)) /\ p = "idle"
      \/ (\E t \in Threads : a = Pinger(t)) /\ p = "ready"
  <2>1. CASE \E t \in Threads : a = Caller(t)
    BY <2>1, Names
  <2>2. CASE \E t \in Threads : a = Pinger(t)
    BY <2>2, Names
  <2> QED
    BY <2>1, <2>2, Names
<1> HIDE DEF p
<1>4. MovesTo(a, p) /\ agent'[a].id = 0
  BY <1>1, <1>3, ReturnMoves DEF IInv, CallPlaces, PingPlaces
<1>5. /\ replies' \in [Threads -> Seq(Messages)]
      /\ \A u \in Threads : replies[u] = <<>> => replies'[u] = <<>>
      /\ replies'[s] = <<>>
  BY <1>1 DEF IInv, WiresOK
<1>6. timedOut' = timedOut /\ timedOut \subseteq Threads
  BY <1>2 DEF IInv, ProxyOK
<1>7. /\ \A b \in Agents : ~Waits(b)' /\ agent'[b].pc # "recv"
      /\ \A u \in Threads : Quiet(u) => Quiet(u)'
      /\ \A u \in Threads : Stale(u) => Stale(u)'
      /\ ReleaseSent' <=> ReleaseSent
      /\ AgentsOK' /\ ProxyOK' /\ WiresOK' /\ ServerOK' /\ Left' /\ Working' /\ Unused'
      /\ Connections' /\ Pinging' /\ Unreleased' /\ Answerable' /\ Noticed' /\ NoneWaits'
      /\ Released'
  BY <1>1, <1>2, <1>3, <1>4, <1>5, <1>6, WaitEnds
<1>8. OneRequest'
  <2>1. ASSUME NEW u \in Threads \ timedOut, ~ReleaseSent, Asked(u)
        PROVE  Quiet(u)' \/ Stale(u)'
    <3>1. Waits(a) /\ agent[a].sentOn = u
      BY <1>1, <2>1, Alone DEF Asked, Waits
    <3>2. CASE u = s
      <4>1. inbox[u] = <<>> /\ NoTask(u)
        BY <1>1, <2>1, <3>2, Answered
      <4>2. replies'[u] = <<>>
        BY <1>5, <3>2
      <4> QED
        BY <1>2, <4>1, <4>2 DEF Quiet, NoTask, server
    <3>3. CASE u # s
      <4>1. /\ m_cSocketfd \notin {None, u}
            /\ agent[Caller(u)].pc \notin {"connect", "connected"}
        BY <1>1, <3>1, <3>3, Replaced
      <4>2. agent'[Caller(u)].pc \notin {"connect", "connected"}
        BY <1>3, <1>4, <4>1, Names DEF MovesTo
      <4> QED
        BY <1>2, <1>7, <4>1, <4>2 DEF Stale
    <3> QED
      BY <3>2, <3>3
  <2> QED
    BY <1>6, <1>7, <2>1 DEF IInv, OneRequest
<1>9. Invoked'
  <2>1. SUFFICES ASSUME timedOut = {}, NEW u \in Threads, NEW cmd \in {"INVOKE", "PING"},
                        SentIn(u, cmd)', Timely(cmd)'
                 PROVE  FALSE
    BY <1>6 DEF Invoked
  <2>2. SentIn(u, cmd) /\ Timely(cmd)
    BY <1>2, <2>1 DEF SentIn, server, Timely, Late
  <2>3. PICK b \in Agents : Waits(b) /\ agent[b].sentOn = u /\ Message(b).cmd = cmd
    BY <2>1, <2>2 DEF IInv, Invoked, Awaited
  <2>4. a = b
    BY <1>1, <2>3, Alone DEF Waits
  <2>5. ~ReleaseSent
    BY <2>2, <2>3, WaitsInTime
  <2>6. u = s /\ inbox[s] = <<>> /\ NoTask(s)
    BY <1>1, <2>1, <2>3, <2>4, <2>5, Answered
  <2> QED
    BY <2>2, <2>6 DEF SentIn, NoTask
<1> QED
  BY <1>7, <1>8, <1>9 DEF IInv

(* Somebody gives up: on a socket that exists it becomes one of those on   *)
(* which requests pile up; otherwise the stub is gone and with it all that *)
(* was under way.                                                          *)
LEMMA ReceiveFailsStep ==
    ASSUME IInv, NEW a \in Agents, ReceiveFails(a)
    PROVE  IInv'
<1> DEFINE s == agent[a].on
<1>1. /\ agent[a].pc = "recv" /\ s \in Threads /\ replies[s] = <<>> /\ Waits(a)
      /\ agent[a].sentOn \in Threads
      /\ timedOut' = (IF Open(s) THEN timedOut \cup {s, agent[a].sentOn} ELSE timedOut)
      /\ Return(a, "died") /\ m_Lock' \in {None, m_Lock}
  BY DEF ReceiveFails, IInv, Working, Waits
<1>2. /\ UNCHANGED <<m_cSocketfd, m_pPingTask, m_pOrgue, held, calls, signalled, server, inbox>>
      /\ UNCHANGED <<replies, crowded, pingedLate>>
  BY DEF ReceiveFails, wires
<1>3. MovesTo(a, "died") /\ agent'[a].id = 0
  BY <1>1, ReturnMoves DEF IInv, CallPlaces
<1>4. /\ replies' \in [Threads -> Seq(Messages)]
      /\ \A u \in Threads : replies[u] = <<>> => replies'[u] = <<>>
  BY <1>2 DEF IInv, WiresOK
<1>5. timedOut \subseteq timedOut' /\ timedOut' \subseteq Threads
  BY <1>1 DEF IInv, ProxyOK
<1>6. /\ \A b \in Agents : ~Waits(b)' /\ agent'[b].pc # "recv"
      /\ \A u \in Threads : Quiet(u) => Quiet(u)'
      /\ \A u \in Threads : Stale(u) => Stale(u)'
      /\ ReleaseSent' <=> ReleaseSent
      /\ AgentsOK' /\ ProxyOK' /\ WiresOK' /\ ServerOK' /\ Left' /\ Working' /\ Unused'
      /\ Connections' /\ Pinging' /\ Unreleased' /\ Answerable' /\ Noticed' /\ NoneWaits'
      /\ Released'
  BY <1>1, <1>2, <1>3, <1>4, <1>5, Names, WaitEnds
<1>7. ~Open(s) /\ ~ReleaseSent => /\ BagToSet(pool) = {}
                                  /\ \A u \in Threads : inbox[u] = <<>>
  BY <1>1 DEF IInv, Connections, Unreleased, ServerOK
<1>8. OneRequest'
  <2>1. ASSUME NEW u \in Threads \ timedOut', ~ReleaseSent, Asked(u)
        PROVE  Quiet(u)' \/ Stale(u)'
    <3>1. agent[a].sentOn = u /\ ~Open(s)
      BY <1>1, <2>1, Alone DEF Asked, Waits
    <3>2. CASE u = s
      BY <1>1, <1>2, <1>7, <2>1, <3>1, <3>2 DEF Quiet, NoTask, server
    <3>3. CASE u # s
      <4>1. /\ m_cSocketfd \notin {None, u}
            /\ agent[Caller(u)].pc \notin {"connect", "connected"}
        BY <1>1, <3>1, <3>3, Replaced
      <4>2. agent'[Caller(u)].pc \notin {"connect", "connected"}
        BY <1>3, <4>1, Names DEF MovesTo
      <4> QED
        BY <1>2, <1>6, <4>1, <4>2 DEF Stale
    <3> QED
      BY <3>2, <3>3
  <2> QED
    BY <1>5, <1>6, <2>1 DEF IInv, OneRequest
<1>9. Invoked'
  <2>1. SUFFICES ASSUME timedOut' = {}, NEW u \in Threads, NEW cmd \in {"INVOKE", "PING"},
                        SentIn(u, cmd)', Timely(cmd)'
                 PROVE  FALSE
    BY DEF Invoked
  <2>2. SentIn(u, cmd) /\ Timely(cmd) /\ timedOut = {} /\ ~Open(s)
    BY <1>1, <1>2, <1>5, <2>1 DEF SentIn, server, Timely, Late
  <2>3. PICK b \in Agents : Waits(b) /\ Message(b).cmd = cmd
    BY <2>1, <2>2 DEF IInv, Invoked, Awaited
  <2>4. ~ReleaseSent
    BY <2>2, <2>3, WaitsInTime
  <2> QED
    BY <1>7, <2>2, <2>4 DEF SentIn
<1> QED
  BY <1>6, <1>8, <1>9 DEF IInv

(* A message is sent.                                                      *)
LEMMA MessageSent ==
    ASSUME IInv, NEW s \in Sockets, NEW m \in Messages, Sent(s, m),
           UNCHANGED <<stub, connfd, backlog, watched, polled, pool, replies, timedOut>>
    PROVE  /\ edges \subseteq edges' /\ edges' \subseteq edges \cup {s}
           /\ \A u \in Threads \ {s} : inbox'[u] = inbox[u]
           /\ s # None /\ Open(s) => inbox'[s] = Append(inbox[s], m)
           /\ ~(s # None /\ Open(s)) => inbox' = inbox
           /\ \A u : Open(u)' <=> Open(u)
           /\ \A u : NoTask(u)' <=> NoTask(u)
           /\ \A u \in Threads : inbox[u] # <<>> => inbox'[u] # <<>> /\ Head(inbox'[u]) = Head(inbox[u])
           /\ \A u \in Threads : ReleaseIn(u)' => ReleaseIn(u) \/ (u = s /\ m = Release)
           /\ \A u \in Threads : \A cmd : SentIn(u, cmd)' => SentIn(u, cmd) \/ (u = s /\ m.cmd = cmd)
           /\ stub = "dead" => \A u \in Threads : inbox'[u] = <<>>
           /\ WiresOK' /\ ServerOK' /\ Noticed'
<1>1. /\ \A u : Open(u)' <=> Open(u)
      /\ \A u : NoTask(u)' <=> NoTask(u)
  BY DEF Open, NoTask
<1>2. CASE s # None /\ Open(s)
  <2>1. /\ s \in Threads /\ inbox' = [inbox EXCEPT ![s] = Append(inbox[s], m)]
        /\ inbox \in [Threads -> Seq(Messages)]
        /\ edges' = IF s \in watched THEN edges \cup {s} ELSE edges
    BY <1>2 DEF Sent, Sockets, IInv, WiresOK
  <2>2. /\ \A u \in Threads \ {s} : inbox'[u] = inbox[u]
        /\ inbox'[s] = Append(inbox[s], m) /\ inbox[s] \in Seq(Messages)
        /\ inbox' \in [Threads -> Seq(Messages)]
    BY <2>1
  <2>3. \A u \in Threads : inbox[u] # <<>> => inbox'[u] # <<>> /\ Head(inbox'[u]) = Head(inbox[u])
    BY <2>2
  <2>4. /\ Len(inbox'[s]) = Len(inbox[s]) + 1
        /\ \A i \in 1 .. Len(inbox'[s]) :
             inbox'[s][i] = m \/ (i \in 1 .. Len(inbox[s]) /\ inbox'[s][i] = inbox[s][i])
    BY <2>2
  <2>5. \A u \in Threads : ReleaseIn(u)' => ReleaseIn(u) \/ (u = s /\ m = Release)
    BY <2>2, <2>4 DEF ReleaseIn
  <2>6. \A u \in Threads : \A cmd : SentIn(u, cmd)' => SentIn(u, cmd) \/ (u = s /\ m.cmd = cmd)
    BY <2>2, <2>4 DEF SentIn
  <2>7. stub # "dead"
    BY <1>2 DEF IInv, Connections, Open
  <2>8. WiresOK' /\ ServerOK'
    BY <2>1, <2>2 DEF IInv, WiresOK, ServerOK
  <2>9. Noticed'
    BY <1>1, <1>2, <2>1, <2>2 DEF IInv, Noticed
  <2> QED
    BY <1>1, <1>2, <2>1, <2>2, <2>3, <2>5, <2>6, <2>7, <2>8, <2>9
<1>3. CASE ~(s # None /\ Open(s))
  <2>1. inbox' = inbox /\ edges' = edges
    BY <1>3 DEF Sent
  <2>2. WiresOK' /\ ServerOK' /\ Noticed'
    BY <1>1, <2>1 DEF IInv, WiresOK, ServerOK, Noticed
  <2> QED
    BY <1>1, <1>3, <2>1, <2>2 DEF IInv, Connections, ReleaseIn, SentIn
<1> QED
  BY <1>2, <1>3

(* Who leaves finds the other threads gone.                                *)
LEMMA LastOne ==
    ASSUME IInv, NEW t \in Threads, agent[Caller(t)].pc \in Leaving
    PROVE  /\ held = {}
           /\ \A u \in Threads \ {t} : agent[Caller(u)].pc = "idle"
           /\ \A u \in Threads : ~Waits(Caller(u))
BY DEF IInv, Left, Leaving, Waits

(* An agent sends its message.                                             *)
LEMMA SendMoves ==
    ASSUME IInv, NEW a \in Agents, Send(a)
    PROVE  /\ MovesTo(a, "sent") /\ agent'[a].sentOn = m_cSocketfd
           /\ agent'[a].id = agent[a].id
<1>1. PICK r \in AgentState : r = agent[a]
  BY DEF IInv, AgentsOK
<1>2. agent' = [agent EXCEPT ![a] = [r EXCEPT !.pc = "sent", !.sentOn = m_cSocketfd]]
  BY <1>1 DEF Send
<1>3. [r EXCEPT !.pc = "sent", !.sentOn = m_cSocketfd] \in AgentState
  BY <1>1, HasSocket DEF AgentState, CallPlaces, Sockets, Send
<1> QED
  BY <1>1, <1>2, <1>3 DEF IInv, AgentsOK, MovesTo, AgentState

(* A message is sent under the lock: nobody waits, so that its socket is   *)
(* quiet, or has been given up on, and this message is the only one.       *)
LEMMA SendMessageStep ==
    ASSUME IInv, NEW a \in Agents, Send(a)
    PROVE  IInv'
<1> DEFINE s == m_cSocketfd
           m == Message(a)
<1>1. /\ agent[a].pc = "ready" /\ m_Lock = None /\ s \in Threads /\ s # None
      /\ m_Lock' = a /\ Sent(s, m)
      /\ UNCHANGED <<m_cSocketfd, m_pPingTask, m_pOrgue, held, calls, signalled, stub, connfd,
                     backlog, watched, polled, pool, replies, timedOut, crowded>>
      /\ pingedLate' = (pingedLate \/ ReleaseSent)
  BY HasSocket, Names DEF Send, history
<1>2. \A b \in Agents : ~Waits(b) /\ agent[b].pc # "recv"
  BY <1>1, Alone DEF Waits
<1>3. /\ MovesTo(a, "sent") /\ agent'[a].sentOn = s
      /\ agent'[a].id = agent[a].id
  BY SendMoves
<1>4. /\ m \in Messages /\ m # Release
      /\ m.cmd = "INVOKE" => \E t \in Threads : a = Caller(t)
      /\ Message(a)' = m
  <2>1. agent[a].id \in Nat
    BY DEF IInv, AgentsOK, AgentState
  <2> QED
    BY <1>3, <2>1, Names DEF Message, Messages, Invoke, Ping, Release
<1> HIDE DEF m
<1>5. /\ edges' \subseteq edges \cup {s}
      /\ \A u \in Threads \ {s} : inbox'[u] = inbox[u]
      /\ Open(s) => inbox'[s] = Append(inbox[s], m)
      /\ ~Open(s) => inbox' = inbox
      /\ \A u : Open(u)' <=> Open(u)
      /\ \A u : NoTask(u)' <=> NoTask(u)
      /\ \A u \in Threads : inbox[u] # <<>> => inbox'[u] # <<>> /\ Head(inbox'[u]) = Head(inbox[u])
      /\ \A u \in Threads : ReleaseIn(u)' => ReleaseIn(u)
      /\ \A u \in Threads : \A cmd : SentIn(u, cmd)' => SentIn(u, cmd) \/ (u = s /\ m.cmd = cmd)
      /\ stub = "dead" => \A u \in Threads : inbox'[u] = <<>>
      /\ WiresOK' /\ ServerOK' /\ Noticed'
  BY <1>1, <1>4, MessageSent DEF Sockets
<1>6. /\ \A b \in Agents : Waits(b)' <=> b = a
      /\ \A b \in Agents : agent'[b].pc # "recv"
  BY <1>2, <1>3 DEF Waits, MovesTo
<1>7. /\ ReleaseSent' <=> ReleaseSent
      /\ Gone' <=> Gone
      /\ \A u \in Threads : Fresh(u)' <=> Fresh(u)
      /\ \A u \in Threads : agent'[Caller(u)].pc # agent[Caller(u)].pc =>
           agent'[Caller(u)].pc = "sent" /\ agent[Caller(u)].pc = "ready"
      /\ \A u \in Threads : agent'[Pinger(u)].pc # agent[Pinger(u)].pc =>
           agent'[Pinger(u)].pc = "sent" /\ agent[Pinger(u)].pc = "ready"
  BY <1>1, <1>3, Names DEF ReleaseSent, Gone, Fresh, MovesTo
<1>8. \A u \in Threads \ {s} : Quiet(u)' <=> Quiet(u)
  BY <1>1, <1>5 DEF Quiet
<1>9. AgentsOK'
  <2>1. calls' \in Nat /\ calls <= calls' /\ agent'[a].id <= calls'
    BY <1>1, <1>3 DEF IInv, AgentsOK
  <2> QED
    BY <1>3, <2>1, Names, AgentsStayOK DEF IInv, CallPlaces, PingPlaces
<1>10. ProxyOK'
  BY <1>1 DEF IInv, ProxyOK
<1>11. Left'
  BY <1>1, <1>7 DEF IInv, Left, Leaving
<1>12. Working'
  BY <1>1, <1>3, <1>6 DEF Working
<1>13. Unused'
  <2>1. \A u \in Threads : Fresh(u) => u # s
    BY <1>1 DEF IInv, Unused
  <2> QED
    BY <1>1, <1>3, <1>5, <1>6, <1>7, <1>8, <2>1 DEF IInv, Unused
<1>14. Connections'
  BY <1>1, <1>3, <1>5, <1>6, <1>7 DEF IInv, Connections
<1>15. Pinging'
  BY <1>1, <1>7 DEF IInv, Pinging, ProxyOK
<1>16. Unreleased'
  BY <1>1, <1>5, <1>7 DEF IInv, Unreleased
<1>17. OneRequest'
  <2>1. SUFFICES ASSUME ~ReleaseSent, NEW u \in Threads \ timedOut
                 PROVE  Quiet(u)' \/ Stale(u)' \/ Asked(u)'
    BY <1>1, <1>7 DEF OneRequest
  <2>2. Quiet(u) \/ Stale(u)
    BY <1>2, <2>1 DEF IInv, OneRequest, Asked
  <2>3. CASE u # s
    <3>1. Stale(u) => Stale(u)'
      BY <1>1, <1>6, <1>7 DEF Stale
    <3> QED
      BY <1>8, <2>2, <2>3, <3>1
  <2>4. CASE u = s /\ Open(s)
    <3>1. Quiet(s)
      BY <2>2, <2>4 DEF Stale
    <3>2. PICK x \in Messages : x = m
      BY <1>4
    <3>3. inbox'[u] = <<x>> /\ replies'[u] = <<>> /\ NoTask(u)'
      BY <1>1, <1>5, <2>4, <3>1, <3>2 DEF Quiet
    <3>4. Only(u, x)'
      BY <3>3 DEF Only
    <3>5. Only(u, Message(a))'
      BY <1>4, <3>2, <3>4
    <3> QED
      BY <1>3, <1>6, <2>4, <3>5 DEF Asked
  <2>5. CASE u = s /\ ~Open(s)
    <3>1. Quiet(s)
      BY <2>2, <2>5 DEF Stale
    <3> QED
      BY <1>1, <1>5, <2>5, <3>1 DEF Quiet
  <2> QED
    BY <2>3, <2>4, <2>5
<1>18. Answerable'
  <2>1. ASSUME stub = "alive" PROVE ~Quiet(s)'
    <3>1. Open(s)
      BY <1>1, <2>1 DEF IInv, Connections
    <3>2. inbox'[s] # <<>>
      BY <1>1, <1>5, <3>1 DEF IInv, WiresOK
    <3> QED
      BY <1>1, <3>2 DEF Quiet
  <2> QED
    BY <1>1, <1>3, <1>6, <2>1 DEF Answerable
<1>19. Invoked'
  <2>1. SUFFICES ASSUME timedOut = {}, NEW u \in Threads, NEW cmd \in {"INVOKE", "PING"},
                        SentIn(u, cmd)', Timely(cmd)'
                 PROVE  Awaited(u, cmd)'
    BY <1>1 DEF Invoked
  <2>2. ~SentIn(u, cmd)
    <3>1. Timely(cmd)
      BY <1>1, <2>1 DEF Timely, Late
    <3> QED
      BY <1>2, <2>1, <3>1 DEF IInv, Invoked, Awaited
  <2> QED
    BY <1>3, <1>4, <1>5, <1>6, <2>1, <2>2 DEF Awaited
<1>20. Released'
  <2>1. \A u \in Threads : ReleaseFirst(u) => ReleaseFirst(u)'
    BY <1>1, <1>5 DEF ReleaseFirst
  <2> QED
    BY <1>1, <1>7, <2>1 DEF IInv, Released
<1>21. NoneWaits'
  <2>1. ReleaseSent => a[2] = "pinger"
    BY <1>1, LastOne, Names DEF ReleaseSent, Leaving
  <2> QED
    BY <1>1, <1>6, <1>7, <2>1 DEF IInv, NoneWaits, Late
<1> QED
  BY <1>5, <1>9, <1>10, <1>11, <1>12, <1>13, <1>14, <1>15, <1>16, <1>17, <1>18, <1>19, <1>20,
     <1>21 DEF IInv

(* RELEASE is sent by the last caller.  Unless a ping has the lock, nobody *)
(* waits, the socket is quiet, and RELEASE is the first to be read.        *)
LEMMA SendReleaseStep ==
    ASSUME IInv, NEW t \in Threads, SendRelease(t)
    PROVE  IInv'
<1> DEFINE a == Caller(t)
           s == m_cSocketfd
<1>1. /\ a \in Agents /\ agent[a].pc = "release"
      /\ Sent(s, Release) /\ s \in Sockets
      /\ crowded' = (m_Lock # None)
      /\ UNCHANGED <<m_cSocketfd, m_pPingTask, m_Lock, m_pOrgue, held, calls, signalled, stub,
                     connfd, backlog, watched, polled, pool, replies, timedOut, pingedLate>>
  BY Names DEF SendRelease, IInv, ProxyOK
<1>2. MovesTo(a, "delete") /\ agent'[a].id = agent[a].id
  BY <1>1, GotoMoves DEF IInv, SendRelease, CallPlaces
<1>3. Release \in Messages /\ Release.cmd = "RELEASE"
  BY DEF Release, Messages
<1>4. /\ edges' \subseteq edges \cup {s}
      /\ \A u \in Threads \ {s} : inbox'[u] = inbox[u]
      /\ s # None /\ Open(s) => inbox'[s] = Append(inbox[s], Release)
      /\ \A u : Open(u)' <=> Open(u)
      /\ \A u : NoTask(u)' <=> NoTask(u)
      /\ \A u \in Threads : inbox[u] # <<>> => inbox'[u] # <<>>
      /\ \A u \in Threads : ReleaseIn(u)' => ReleaseIn(u) \/ u = s
      /\ \A u \in Threads : \A cmd : SentIn(u, cmd)' => SentIn(u, cmd) \/ cmd = "RELEASE"
      /\ stub = "dead" => \A u \in Threads : inbox'[u] = <<>>
      /\ WiresOK' /\ ServerOK' /\ Noticed'
  BY <1>1, <1>3, MessageSent
<1>5. /\ held = {}
      /\ \A u \in Threads \ {t} : agent[Caller(u)].pc = "idle"
  BY <1>1, LastOne DEF Leaving
<1> HIDE DEF a
<1>6. /\ \A b \in Agents : Waits(b)' <=> Waits(b)
      /\ \A b \in Agents : Waits(b) => b # a /\ agent'[b] = agent[b]
      /\ \A b \in Agents : agent'[b].pc = "recv" <=> agent[b].pc = "recv"
      /\ \A b \in Agents : agent[b].pc = "recv" => agent'[b] = agent[b]
  BY <1>1, <1>2 DEF Waits, MovesTo
<1>7. /\ ReleaseSent' /\ ~ReleaseSent
      /\ Gone' <=> Gone
      /\ \A u \in Threads : agent'[Pinger(u)] = agent[Pinger(u)]
      /\ \A u \in Threads \ {t} : agent'[Caller(u)] = agent[Caller(u)]
      /\ \A u \in Threads : Fresh(u)' <=> Fresh(u)
  BY <1>1, <1>2, <1>5, Names DEF ReleaseSent, Gone, Fresh, MovesTo, a
<1>8. AgentsOK'
  BY <1>1, <1>2, AgentsStayOK DEF IInv, AgentsOK, CallPlaces, a
<1>9. ProxyOK'
  BY <1>1 DEF IInv, ProxyOK
<1>10. Left'
  BY <1>1, <1>2, <1>5, <1>7, Names DEF Left, Leaving, MovesTo, a
<1>11. Working'
  BY <1>1, <1>2, <1>5, <1>6, <1>7 DEF IInv, Working, Leaving, MovesTo, a
<1>12. Unused'
  <2>1. \A u \in Threads : Fresh(u) => u # s
    BY DEF IInv, Unused
  <2>2. \A u \in Threads \ {s} : Quiet(u)' <=> Quiet(u)
    BY <1>1, <1>4 DEF Quiet
  <2>3. \A u \in Threads : agent'[Caller(u)].pc # "connected" => agent[Caller(u)].pc # "connected"
    BY <1>1, <1>7 DEF a
  <2> QED
    BY <1>1, <1>4, <1>6, <1>7, <2>1, <2>2, <2>3 DEF IInv, Unused
<1>13. Connections'
  BY <1>1, <1>2, <1>4, <1>6, <1>7 DEF IInv, Connections, MovesTo, a
<1>14. Pinging'
  BY <1>1, <1>2, <1>7 DEF IInv, Pinging, ProxyOK, MovesTo, a
<1>15. Unreleased' /\ OneRequest'
  BY <1>1, <1>4, <1>7 DEF IInv, Unreleased, OneRequest
<1>16. Answerable'
  <2>1. \A u \in Threads : Quiet(u)' => Quiet(u)
    BY <1>1, <1>4 DEF Quiet
  <2> QED
    BY <1>1, <1>6, <2>1 DEF IInv, Answerable, Working
<1>17. Invoked'
  <2>1. \A u \in Threads : \A cmd : Awaited(u, cmd) => Awaited(u, cmd)'
    BY <1>6, Names DEF Awaited, Message
  <2>2. ~Late
    BY <1>7 DEF IInv, NoneWaits
  <2>3. \A cmd : Timely(cmd)
    BY <2>2 DEF Timely
  <2>4. \A u \in Threads, cmd \in {"INVOKE", "PING"} : SentIn(u, cmd)' => SentIn(u, cmd)
    BY <1>4
  <2> QED
    BY <1>1, <2>1, <2>3, <2>4 DEF IInv, Invoked
<1>18. Released'
  <2>1. SUFFICES ASSUME s # None, stub = "alive", m_Lock = None, s \notin timedOut
                 PROVE  ReleaseFirst(s)'
    BY <1>1 DEF Released
  <2>2. /\ Open(s) /\ s \in Threads \ timedOut
    BY <1>1, <2>1 DEF IInv, Connections, Sockets
  <2>3. Quiet(s)
    BY <1>7, <2>1, <2>2, Alone DEF IInv, OneRequest, Stale, Asked
  <2>4. inbox'[s] = Append(<<>>, Release)
    BY <1>4, <2>1, <2>2, <2>3 DEF Quiet
  <2>5. inbox'[s] # <<>> /\ Head(inbox'[s]) = Release
    BY <2>4
  <2> QED
    BY <1>1, <2>5 DEF ReleaseFirst
<1>19. NoneWaits'
  <2>1. ASSUME NEW b \in Agents, Waits(b) PROVE Late' /\ b[2] = "pinger"
    <3>1. b[2] = "pinger"
      BY <1>1, <2>1, LastOne, Names DEF Leaving, a
    <3>2. m_Lock = b /\ b # None
      BY <2>1, Alone, Names
    <3> QED
      BY <1>1, <3>1, <3>2 DEF Late
  <2> QED
    BY <1>6, <1>7, <2>1 DEF NoneWaits
<1> QED
  BY <1>4, <1>8, <1>9, <1>10, <1>11, <1>12, <1>13, <1>14, <1>15, <1>16, <1>17, <1>18, <1>19 DEF IInv

(* The destructor has the ping task that m_pPingTask names signalled.      *)
LEMMA DeleteProxyStep ==
    ASSUME IInv, NEW t \in Threads, DeleteProxy(t)
    PROVE  IInv'
<1> DEFINE a == Caller(t)
<1>1. /\ a \in Agents /\ agent[a].pc = "delete"
      /\ UNCHANGED <<m_cSocketfd, m_pPingTask, m_Lock, m_pOrgue, held, calls>>
      /\ UNCHANGED <<server, wires, history>>
  BY Names DEF DeleteProxy
<1>2. MovesTo(a, "gone") /\ agent'[a].id = agent[a].id
  BY <1>1, GotoMoves DEF IInv, DeleteProxy, CallPlaces
<1>3. /\ held = {}
      /\ \A u \in Threads \ {t} : agent[Caller(u)].pc = "idle"
  BY <1>1, LastOne DEF Leaving
<1> HIDE DEF a
<1>4. /\ Unused' /\ Connections' /\ Unreleased' /\ OneRequest' /\ Answerable' /\ Noticed'
      /\ Invoked' /\ NoneWaits' /\ Released'
  <2>1. UNCHANGED <<m_cSocketfd, server, wires, history>>
    BY <1>1
  <2> QED
    BY <1>1, <1>2, <2>1, AgentMovesAside DEF Waits
<1>5. AgentsOK'
  BY <1>1, <1>2, AgentsStayOK DEF IInv, AgentsOK, CallPlaces, a
<1>6. /\ signalled' \subseteq signalled \cup {m_pPingTask}
      /\ m_pPingTask # None => agent[m_pPingTask].pc = "ended" \/ m_pPingTask \in signalled'
      /\ signalled' \subseteq Threads \X {"pinger"}
  <2>1. m_pPingTask # None => m_pPingTask \in Threads \X {"pinger"}
    BY DEF IInv, ProxyOK, Pinger
  <2> QED
    BY <2>1 DEF DeleteProxy, IInv, ProxyOK
<1>7. ProxyOK' /\ WiresOK' /\ ServerOK'
  BY <1>1, <1>6, WiresStay DEF IInv, ProxyOK, history
<1>8. Left'
  BY <1>1, <1>2, <1>3, Names DEF Left, Leaving, MovesTo, a
<1>9. Working'
  <2>1. \A b \in Agents : Waits(b)' \/ agent'[b].pc = "recv" => agent'[b] = agent[b]
    BY <1>1, <1>2 DEF MovesTo, Waits
  <2> QED
    BY <1>1, <1>2, <2>1, Names DEF IInv, Working, Waits, MovesTo, Leaving, a
<1>10. Pinging'
  <2>1. Gone'
    BY <1>2 DEF Gone, MovesTo, a
  <2>2. /\ \A u \in Threads : agent'[Pinger(u)] = agent[Pinger(u)]
        /\ \A u \in Threads : agent'[Caller(u)].pc = "started" => agent[Caller(u)].pc = "started"
        /\ \A u \in Threads : agent[Caller(u)].pc # "started"
    BY <1>1, <1>2, <1>3, Names DEF MovesTo, a
  <2>3. m_pPingTask # None => agent'[m_pPingTask] = agent[m_pPingTask]
    BY <2>2 DEF IInv, ProxyOK
  <2> QED
    BY <1>1, <1>6, <2>1, <2>2, <2>3 DEF IInv, Pinging
<1> QED
  BY <1>4, <1>5, <1>7, <1>8, <1>9, <1>10 DEF IInv

(* A ping task ends, or uses what is no longer the proxy: the proxy has    *)
(* gone, so that nobody waits for it.                                      *)
LEMMA PingerEnds ==
    ASSUME IInv, Gone, NEW t \in Threads, agent[Pinger(t)].pc # "none",
           NEW p \in {"ended", "wild"}, MovesTo(Pinger(t), p), agent'[Pinger(t)].id = 0,
           m_Lock' = m_Lock \/ (m_Lock = Pinger(t) /\ m_Lock' = None), signalled' \subseteq signalled,
           m_pPingTask # None => agent'[m_pPingTask].pc = "ended" \/ m_pPingTask \in signalled',
           UNCHANGED <<m_cSocketfd, m_pPingTask, m_pOrgue, held, calls, server, wires, history>>
    PROVE  IInv'
<1> DEFINE a == Pinger(t)
<1>1. /\ a \in Agents /\ a # None /\ agent[a].pc # "none" /\ MovesTo(a, p) /\ agent'[a].id = 0
      /\ UNCHANGED <<m_cSocketfd, m_pPingTask, m_pOrgue, held, calls>>
      /\ UNCHANGED <<inbox, replies, pool, stub, connfd, watched, backlog, edges, polled>>
      /\ UNCHANGED <<timedOut, crowded, pingedLate>>
  BY Names DEF server, wires, history
<1>2. /\ \A u \in Threads : agent'[Caller(u)] = agent[Caller(u)]
      /\ \A u \in Threads \ {t} : agent'[Pinger(u)] = agent[Pinger(u)]
      /\ \A b \in Agents \ {a} : agent'[b] = agent[b]
  BY <1>1, Names DEF MovesTo
<1>3. agent'[a].pc = p /\ agent'[a].pc # "none"
  BY <1>1 DEF MovesTo
<1> HIDE DEF a
<1>4. /\ \A b \in Agents : Waits(b)' => Waits(b) /\ agent'[b] = agent[b]
      /\ \A b \in Agents : agent'[b].pc = "recv" => agent[b].pc = "recv" /\ agent'[b] = agent[b]
  BY <1>2, <1>3 DEF Waits
<1>5. /\ Gone' /\ ReleaseSent /\ ReleaseSent'
      /\ \A u \in Threads : Fresh(u)' <=> Fresh(u)
  BY <1>1, <1>2 DEF Gone, ReleaseSent, Fresh
<1>6. /\ \A s : Open(s)' <=> Open(s)
      /\ \A s : Quiet(s)' <=> Quiet(s)
      /\ \A s : ReleaseIn(s)' <=> ReleaseIn(s)
      /\ \A s, cmd : SentIn(s, cmd)' <=> SentIn(s, cmd)
      /\ \A s : ReleaseFirst(s)' <=> ReleaseFirst(s)
  BY <1>1, SameWires DEF Open
<1>7. AgentsOK'
  BY <1>1, AgentsStayOK DEF IInv, AgentsOK, PingPlaces, a
<1>8. ProxyOK' /\ WiresOK' /\ ServerOK'
  BY <1>1, WiresStay DEF IInv, ProxyOK
<1>9. Left'
  BY <1>1, <1>2 DEF IInv, Left
<1>10. Working'
  <2>1. \A b \in Agents : Waits(b)' => m_Lock' = b
    <3>1. ASSUME NEW b \in Agents, Waits(b)', m_Lock = a PROVE FALSE
      BY <1>3, <1>4, <3>1 DEF IInv, Working, Waits
    <3> QED
      BY <1>4, <3>1 DEF IInv, Working, a
  <2> QED
    BY <1>1, <1>2, <1>4, <2>1 DEF IInv, Working
<1>11. Unused'
  <2>1. \A u \in Threads : agent[Pinger(u)].pc = "none" => agent'[Pinger(u)].pc = "none"
    BY <1>2
  <2> QED
    BY <1>1, <1>2, <1>4, <1>5, <1>6, <2>1 DEF IInv, Unused
<1>12. Connections'
  BY <1>1, <1>2, <1>4, <1>6 DEF IInv, Connections
<1>13. Pinging'
  <2>1. \A u \in Threads : agent'[Pinger(u)].pc # "none" <=> agent[Pinger(u)].pc # "none"
    BY <1>2, <1>3 DEF a
  <2> QED
    BY <1>1, <1>2, <1>5, <2>1 DEF IInv, Pinging, ProxyOK
<1>14. Unreleased' /\ OneRequest'
  BY <1>1, <1>5, <1>6 DEF IInv, Unreleased, OneRequest
<1>15. Answerable' /\ Noticed'
  BY <1>1, <1>4, <1>6 DEF IInv, Answerable, Noticed
<1>16. Invoked'
  <2>1. SUFFICES ASSUME timedOut = {}, NEW u \in Threads, NEW cmd \in {"INVOKE", "PING"},
                        SentIn(u, cmd), Timely(cmd)
                 PROVE  FALSE
    BY <1>1, <1>6 DEF Invoked, Timely, Late
  <2>2. PICK b \in Agents : Waits(b) /\ Message(b).cmd = cmd
    BY <2>1 DEF IInv, Invoked, Awaited
  <2> QED
    BY <1>5, <2>1, <2>2, WaitsInTime
<1>17. NoneWaits' /\ Released'
  BY <1>1, <1>4, <1>5, <1>6 DEF IInv, NoneWaits, Late, Released
<1> QED
  BY <1>7, <1>8, <1>9, <1>10, <1>11, <1>12, <1>13, <1>14, <1>15, <1>16, <1>17 DEF IInv

(* The signal ends the ping task that m_pPingTask names.                   *)
LEMMA SiguserHandlerStep ==
    ASSUME IInv, NEW a \in Agents, SiguserHandler(a)
    PROVE  IInv'
<1>1. Gone /\ a = m_pPingTask /\ m_pPingTask # None
  BY Names DEF SiguserHandler, IInv, Pinging
<1>2. PICK t \in Threads : a = Pinger(t)
  BY <1>1 DEF IInv, ProxyOK
<1>3. agent[Pinger(t)].pc # "none"
  BY <1>1, <1>2 DEF IInv, Pinging
<1>4. MovesTo(Pinger(t), "ended") /\ agent'[Pinger(t)].id = 0
  BY <1>2, ReturnMoves DEF IInv, SiguserHandler, PingPlaces
<1>5. /\ m_Lock' = m_Lock \/ (m_Lock = Pinger(t) /\ m_Lock' = None)
      /\ signalled' \subseteq signalled
      /\ UNCHANGED <<m_cSocketfd, m_pPingTask, m_pOrgue, held, calls, server, wires, history>>
  BY <1>2 DEF SiguserHandler
<1>6. agent'[m_pPingTask].pc = "ended"
  BY <1>1, <1>2, <1>4 DEF MovesTo
<1> QED
  BY <1>1, <1>3, <1>4, <1>5, <1>6, PingerEnds

(* A ping task uses the proxy after it has gone.                           *)
LEMMA UseFreedProxyStep ==
    ASSUME IInv, NEW t \in Threads, UseFreedProxy(Pinger(t))
    PROVE  IInv'
<1> DEFINE a == Pinger(t)
<1>1. a \in Agents /\ Gone /\ agent[a].pc \in {"ready", "sent", "recv", "died"}
  BY Names DEF UseFreedProxy
<1>2. MovesTo(a, "wild") /\ agent'[a].id = 0
  BY <1>1, ReturnMoves DEF IInv, UseFreedProxy, PingPlaces
<1>3. /\ m_Lock' = m_Lock /\ signalled' = signalled
      /\ UNCHANGED <<m_cSocketfd, m_pPingTask, m_pOrgue, held, calls, server, wires, history>>
  BY DEF UseFreedProxy
<1> HIDE DEF a
<1>4. m_pPingTask # None => agent'[m_pPingTask].pc = "ended" \/ m_pPingTask \in signalled'
  <2>1. m_pPingTask # None => m_pPingTask \in Agents
    BY Names DEF IInv, ProxyOK
  <2> QED
    BY <1>1, <1>2, <1>3, <2>1 DEF IInv, Pinging, MovesTo
<1> QED
  BY <1>1, <1>2, <1>3, <1>4, PingerEnds DEF a

(***************************************************************************)
(* RpcChannel: the stub's side.                                            *)
(***************************************************************************)

(* What the stub does leaves the proxy as it is.                           *)
LEMMA ProxyApart ==
    ASSUME IInv, UNCHANGED <<proxy, history>>
    PROVE  /\ UNCHANGED <<agent, m_cSocketfd, timedOut, crowded, pingedLate>>
           /\ AgentsOK' /\ ProxyOK' /\ Left' /\ Working' /\ Pinging' /\ NoneWaits'
           /\ ReleaseSent' <=> ReleaseSent
           /\ \A a \in Agents : Waits(a)' <=> Waits(a)
           /\ \A s : Fresh(s)' <=> Fresh(s)
           /\ \A s : Stale(s)' <=> Stale(s)
           /\ \A s, cmd : Awaited(s, cmd)' <=> Awaited(s, cmd)
           /\ \A cmd : Timely(cmd)' <=> Timely(cmd)
           /\ \A s : (\A x \in Messages : Only(s, x) => Only(s, x)') => (Asked(s) => Asked(s)')
<1> USE DEF proxy, history, Waits
<1>1. AgentsOK' /\ ProxyOK'
  BY DEF IInv, AgentsOK, ProxyOK
<1>2. Left' /\ Working' /\ Pinging' /\ NoneWaits'
  BY DEF IInv, Left, Working, Pinging, Gone, NoneWaits, ReleaseSent, Late
<1>3. /\ ReleaseSent' <=> ReleaseSent
      /\ \A s : Fresh(s)' <=> Fresh(s)
      /\ \A s : Stale(s)' <=> Stale(s)
      /\ \A s, cmd : Awaited(s, cmd)' <=> Awaited(s, cmd)
      /\ \A cmd : Timely(cmd)' <=> Timely(cmd)
  BY DEF ReleaseSent, Fresh, Stale, Awaited, Message, Timely, Late
<1>4. ASSUME NEW s, \A x \in Messages : Only(s, x) => Only(s, x)', Asked(s)
      PROVE  Asked(s)'
  <2>1. PICK a \in Agents : Waits(a) /\ agent[a].sentOn = s /\ Only(s, Message(a))
    BY <1>4 DEF Asked
  <2>2. agent[a].id \in Nat
    BY DEF IInv, AgentsOK, AgentState
  <2>3. PICK x \in Messages : x = Message(a)
    <3>1. Message(a) \in Messages
      BY <2>2, Names DEF Message, Messages, Invoke, Ping
    <3> QED
      BY <3>1
  <2>4. Message(a)' = x
    BY <2>3 DEF Message
  <2>5. Only(s, x)'
    BY <1>4, <2>1, <2>3
  <2>6. Only(s, Message(a))'
    BY <2>4, <2>5
  <2> QED
    BY <2>1, <2>6 DEF Asked
<1> QED
  BY <1>1, <1>2, <1>3, <1>4

(* Events are reported: none is lost.                                      *)
LEMMA PollStep ==
    ASSUME IInv, Poll
    PROVE  IInv'
<1>1. /\ UNCHANGED <<proxy, history>>
      /\ UNCHANGED <<inbox, replies, pool, stub, connfd, backlog, watched>>
      /\ edges' \cup polled' = edges \cup polled
  BY DEF Poll, wires
<1>2. \A s : Open(s)' <=> Open(s)
  BY <1>1 DEF Open
<1>3. WiresOK' /\ ServerOK'
  BY <1>1 DEF IInv, WiresOK, ServerOK
<1>4. Unused' /\ Connections' /\ Unreleased' /\ OneRequest'
  BY <1>1, <1>2, SameWires, ProxyApart DEF IInv, Unused, Connections, Unreleased, OneRequest
<1>5. Answerable' /\ Noticed' /\ Invoked' /\ Released'
  BY <1>1, <1>2, SameWires, ProxyApart DEF IInv, Answerable, Noticed, Invoked, Released
<1> QED
  BY <1>1, <1>3, <1>4, <1>5, ProxyApart DEF IInv

(* One connection is accepted, and epoll reports what it holds.            *)
LEMMA ListenCallbackStep ==
    ASSUME IInv, ListenCallback
    PROVE  IInv'
<1> DEFINE s == Head(backlog)
<1>1. /\ UNCHANGED <<proxy, history>>
      /\ UNCHANGED <<inbox, replies, pool, stub>>
      /\ backlog # <<>> /\ backlog' = Tail(backlog)
      /\ watched' = watched \cup {s}
      /\ edges' = IF inbox[s] # <<>> THEN edges \cup {s} ELSE edges
      /\ polled' = polled \ {Listen} /\ connfd' = s
  BY DEF ListenCallback, wires
<1>2. /\ backlog \in Seq(Threads) /\ s \in Threads
      /\ backlog' \in Seq(Threads) /\ Len(backlog) = Len(backlog') + 1
      /\ s = backlog[1]
      /\ \A i \in 1 .. Len(backlog') : backlog'[i] = backlog[i + 1]
  BY <1>1 DEF IInv, ServerOK
<1> HIDE DEF s
<1>3. \A u : Open(u)' <=> Open(u)
  <2>1. ASSUME NEW u, Open(u) PROVE Open(u)'
    <3>1. CASE u \in watched
      BY <1>1, <3>1 DEF Open
    <3>2. ASSUME NEW i \in 1 .. Len(backlog), backlog[i] = u PROVE Open(u)'
      <4>1. CASE i = 1
        BY <1>1, <1>2, <3>2, <4>1 DEF Open
      <4>2. CASE i # 1
        <5>1. i - 1 \in 1 .. Len(backlog') /\ (i - 1) + 1 = i
          BY <1>2, <4>2
        <5>2. backlog'[i - 1] = u
          BY <1>2, <3>2, <5>1
        <5> QED
          BY <5>1, <5>2 DEF Open
      <4> QED
        BY <4>1, <4>2
    <3> QED
      BY <2>1, <3>1, <3>2 DEF Open
  <2>2. ASSUME NEW u, Open(u)' PROVE Open(u)
    <3>1. CASE u \in watched'
      BY <1>1, <1>2, <3>1 DEF Open
    <3>2. ASSUME NEW i \in 1 .. Len(backlog'), backlog'[i] = u PROVE Open(u)
      <4>1. i + 1 \in 1 .. Len(backlog) /\ backlog[i + 1] = u
        BY <1>2, <3>2
      <4> QED
        BY <4>1 DEF Open
    <3> QED
      BY <2>2, <3>1, <3>2 DEF Open
  <2> QED
    BY <2>1, <2>2
<1>4. WiresOK' /\ ServerOK'
  BY <1>1, <1>2 DEF IInv, WiresOK, ServerOK, Sockets
<1>5. Connections'
  <2>1. /\ \A i, j \in 1 .. Len(backlog') : backlog'[i] = backlog'[j] => i = j
        /\ \A i \in 1 .. Len(backlog') : backlog'[i] \notin watched'
    BY <1>1, <1>2 DEF IInv, Connections
  <2>2. stub # "dead"
    BY <1>1 DEF IInv, Connections
  <2> QED
    BY <1>1, <1>3, <2>1, <2>2, ProxyApart DEF IInv, Connections
<1>6. Unused' /\ Unreleased' /\ OneRequest'
  <2>1. \A u \in Threads : Quiet(u) /\ u \notin edges \cup polled => u \notin edges' \cup polled'
    BY <1>1 DEF Quiet
  <2>2. Unused'
    BY <1>1, <1>3, <2>1, SameWires, ProxyApart DEF IInv, Unused
  <2> QED
    BY <1>1, <2>2, SameWires, ProxyApart DEF IInv, Unreleased, OneRequest
<1>7. Noticed'
  <2>1. \A u \in watched' : u # Listen
    BY <1>1, <1>2, NamesAssumption DEF IInv, ServerOK
  <2> QED
    BY <1>1, <1>3, <2>1 DEF IInv, Noticed
<1>8. Answerable' /\ Invoked' /\ Released'
  BY <1>1, SameWires, ProxyApart DEF IInv, Answerable, Invoked, Released
<1> QED
  BY <1>1, <1>4, <1>5, <1>6, <1>7, <1>8, ProxyApart DEF IInv

(* The connection accepted becomes the one that the stub closes.           *)
LEMMA StoreConnfdStep ==
    ASSUME IInv, StoreConnfd
    PROVE  IInv'
<1>1. /\ UNCHANGED <<proxy, history>>
      /\ UNCHANGED <<inbox, replies, pool, stub, backlog, watched, edges, polled>>
      /\ connfd' = None
  BY DEF StoreConnfd, wires
<1>2. \A s : Open(s)' <=> Open(s)
  BY <1>1 DEF Open
<1>3. WiresOK' /\ ServerOK'
  BY <1>1 DEF IInv, WiresOK, ServerOK, Sockets
<1>4. Unused' /\ Connections' /\ Unreleased' /\ OneRequest'
  BY <1>1, <1>2, SameWires, ProxyApart DEF IInv, Unused, Connections, Unreleased, OneRequest
<1>5. Answerable' /\ Noticed' /\ Invoked' /\ Released'
  BY <1>1, <1>2, SameWires, ProxyApart DEF IInv, Answerable, Noticed, Invoked, Released
<1> QED
  BY <1>1, <1>3, <1>4, <1>5, ProxyApart DEF IInv

(* A request becomes a task; where there was only one, nothing is dropped  *)
(* with it.                                                                *)
LEMMA AcceptCallbackStep ==
    ASSUME IInv, NEW s \in Threads, AcceptCallback(s)
    PROVE  IInv'
<1>1. PICK m \in Messages : inbox[s] # <<>> /\ m = Head(inbox[s])
  BY DEF AcceptCallback, IInv, WiresOK
<1> DEFINE task == <<s, m>>
<1>2. /\ UNCHANGED <<proxy, history>>
      /\ UNCHANGED <<stub, connfd, backlog, watched, edges, replies>>
      /\ inbox' = [inbox EXCEPT ![s] = <<>>]
      /\ pool' = pool (+) SetToBag({task})
      /\ polled' = polled \ {s}
      /\ 1 \in 1 .. Len(inbox[s]) /\ inbox[s][1] = m
      /\ inbox' \in [Threads -> Seq(Messages)]
      /\ inbox'[s] = <<>> /\ \A u \in Threads \ {s} : inbox'[u] = inbox[u]
  BY <1>1 DEF AcceptCallback, IInv, WiresOK
<1>3. /\ IsABag(pool') /\ BagToSet(pool') = BagToSet(pool) \cup {task}
      /\ task \notin BagToSet(pool) => pool'[task] = 1
      /\ \A y \in BagToSet(pool) : y # task => pool'[y] = pool[y]
  <2>1. IsABag(pool)
    BY DEF IInv, WiresOK
  <2>2. LET C == pool (+) SetToBag({task}) IN
           /\ IsABag(C) /\ BagToSet(C) = BagToSet(pool) \cup {task}
           /\ task \notin BagToSet(pool) => C[task] = 1
           /\ \A y \in BagToSet(pool) : y # task => C[y] = pool[y]
    BY <2>1, BagPut
  <2> QED
    BY <1>2, <2>2
<1>4. task[1] = s /\ task[2] = m
  OBVIOUS
<1>5. \A s2, m2 : <<s2, m2>> = task <=> s2 = s /\ m2 = m
  OBVIOUS
<1> HIDE DEF task
<1>6. /\ \A u : Open(u)' <=> Open(u)
      /\ \A u \in Threads \ {s} : NoTask(u)' <=> NoTask(u)
      /\ \A u \in Threads \ {s} : Quiet(u)' <=> Quiet(u)
      /\ ~Quiet(s) /\ ~Quiet(s)'
      /\ \A u \in Threads : ReleaseIn(u)' => ReleaseIn(u)
      /\ \A u \in Threads : ReleaseFirst(u) => ReleaseFirst(u)'
  <2>1. \A u : Open(u)' <=> Open(u)
    BY <1>1, <1>2 DEF Open
  <2>2. \A u \in Threads \ {s} : NoTask(u)' <=> NoTask(u)
    BY <1>3, <1>4 DEF NoTask
  <2>3. \A u \in Threads \ {s} : Quiet(u)' <=> Quiet(u)
    BY <1>1, <1>2, <2>2 DEF Quiet
  <2>4. ~Quiet(s) /\ ~Quiet(s)'
    BY <1>1, <1>2, <1>3, <1>4 DEF Quiet, NoTask
  <2>5. ASSUME NEW u \in Threads, ReleaseIn(u)' PROVE ReleaseIn(u)
    <3>1. CASE <<u, Release>> \in BagToSet(pool')
      <4>1. <<u, Release>> \in BagToSet(pool) \/ (u = s /\ Release = m)
        BY <1>3, <1>5, <3>1
      <4> QED
        BY <1>2, <4>1 DEF ReleaseIn
    <3>2. CASE \E i \in 1 .. Len(inbox'[u]) : inbox'[u][i] = Release
      BY <1>2, <3>2 DEF ReleaseIn
    <3> QED
      BY <2>5, <3>1, <3>2 DEF ReleaseIn
  <2>6. ASSUME NEW u \in Threads, ReleaseFirst(u) PROVE ReleaseFirst(u)'
    <3>1. CASE u = s /\ m = Release
      BY <1>3, <1>5, <3>1 DEF ReleaseFirst
    <3>2. CASE ~(u = s /\ m = Release)
      BY <1>1, <1>2, <1>3, <1>5, <2>6, <3>2 DEF ReleaseFirst
    <3> QED
      BY <3>1, <3>2
  <2> QED
    BY <2>1, <2>2, <2>3, <2>4, <2>5, <2>6
<1>7. ASSUME NEW u \in Threads, NEW cmd, SentIn(u, cmd)' PROVE SentIn(u, cmd)
  <2>1. CASE \E i \in 1 .. Len(inbox'[u]) : inbox'[u][i].cmd = cmd
    BY <1>2, <2>1 DEF SentIn
  <2>2. ASSUME NEW y \in BagToSet(pool'), y[1] = u, y[2].cmd = cmd
        PROVE  SentIn(u, cmd)
    <3>1. CASE y = task
      BY <1>2, <1>4, <2>2, <3>1 DEF SentIn
    <3>2. CASE y # task
      BY <1>3, <2>2, <3>2 DEF SentIn
    <3> QED
      BY <3>1, <3>2
  <2> QED
    BY <1>7, <2>1, <2>2 DEF SentIn
<1>8. ASSUME NEW u \in Threads, NEW x \in Messages, Only(u, x) PROVE Only(u, x)'
  <2>1. CASE u = s
    <3>1. inbox[s] = <<x>> /\ replies[s] = <<>> /\ NoTask(s)
      BY <1>1, <1>2, <1>8, <2>1 DEF Only
    <3>2. x = m /\ task \notin BagToSet(pool)
      BY <1>1, <1>2, <1>4, <3>1 DEF NoTask
    <3>3. \A y \in BagToSet(pool') : y[1] = s => y = task
      BY <1>3, <3>1 DEF NoTask
    <3> QED
      BY <1>1, <1>2, <1>3, <1>5, <2>1, <3>1, <3>2, <3>3 DEF Only, task
  <2>2. CASE u # s
    <3>1. \A y \in BagToSet(pool') : y[1] = u => y \in BagToSet(pool) /\ y # task /\ pool'[y] = pool[y]
      BY <1>3, <1>4, <2>2
    <3>2. CASE <<u, x>> \in BagToSet(pool)
      <4>1. <<u, x>> \in BagToSet(pool') /\ pool'[<<u, x>>] = pool[<<u, x>>]
        BY <1>3, <1>5, <2>2, <3>2
      <4> QED
        BY <1>1, <1>2, <1>6, <1>8, <2>2, <3>1, <3>2, <4>1 DEF Only
    <3>3. CASE <<u, x>> \notin BagToSet(pool)
      BY <1>1, <1>2, <1>6, <1>8, <2>2, <3>3 DEF Only
    <3> QED
      BY <3>2, <3>3
  <2> QED
    BY <2>1, <2>2
<1>9. WiresOK'
  <2>1. task \in Threads \X Messages
    BY <1>2 DEF task
  <2> QED
    BY <1>1, <1>2, <1>3, <2>1 DEF IInv, WiresOK
<1>10. ServerOK'
  BY <1>1, <1>2 DEF IInv, ServerOK
<1>11. Unused'
  <2>1. \A u \in Threads : Fresh(u) => u # s
    BY <1>6 DEF IInv, Unused
  <2> QED
    BY <1>1, <1>2, <1>6, <2>1, ProxyApart DEF IInv, Unused
<1>12. Connections'
  <2>1. stub # "dead"
    BY <1>1, <1>2 DEF IInv, Connections
  <2> QED
    BY <1>1, <1>2, <1>6, <2>1, ProxyApart DEF IInv, Connections
<1>13. Unreleased'
  BY <1>1, <1>2, <1>6, ProxyApart DEF IInv, Unreleased
<1>14. OneRequest'
  BY <1>1, <1>2, <1>6, <1>8, ProxyApart DEF IInv, OneRequest
<1>15. Answerable'
  <2>1. \A u \in Threads : Quiet(u)' => Quiet(u)
    BY <1>6
  <2> QED
    BY <1>1, <1>2, <2>1, ProxyApart DEF IInv, Answerable, Working
<1>16. Noticed'
  BY <1>1, <1>2, <1>6, NamesAssumption DEF IInv, Noticed, ServerOK
<1>17. Invoked' /\ Released'
  <2>1. m_cSocketfd = None \/ m_cSocketfd \in Threads
    BY DEF IInv, ProxyOK, Sockets
  <2> QED
    BY <1>1, <1>2, <1>6, <1>7, <2>1, ProxyApart DEF IInv, Invoked, Released
<1> QED
  BY <1>1, <1>2, <1>9, <1>10, <1>11, <1>12, <1>13, <1>14, <1>15, <1>16, <1>17, ProxyApart DEF IInv

(* A task becomes a reply; a RELEASE that stands first is another task.    *)
LEMMA TransactStep ==
    ASSUME IInv, NEW s, NEW m, Transact(s, m)
    PROVE  IInv'
<1> DEFINE task == <<s, m>>
<1>1. /\ UNCHANGED <<proxy, history>>
      /\ UNCHANGED <<inbox, stub, connfd, backlog, watched, edges, polled>>
      /\ stub = "alive" /\ m # Release
      /\ task \in BagToSet(pool)
      /\ pool' = pool (-) SetToBag({task})
      /\ replies' = [replies EXCEPT ![s] = Append(replies[s], m)]
  BY DEF Transact, BagIn, BagToSet, Release
<1>2. /\ s \in Threads /\ m \in Messages
      /\ replies' \in [Threads -> Seq(Messages)]
      /\ \A u \in Threads \ {s} : replies'[u] = replies[u]
      /\ replies'[s] = Append(replies[s], m) /\ replies'[s] # <<>>
  <2>1. s \in Threads /\ m \in Messages
    BY <1>1 DEF IInv, WiresOK
  <2>2. replies \in [Threads -> Seq(Messages)]
    BY DEF IInv, WiresOK
  <2>3. Append(replies[s], m) \in Seq(Messages) /\ Append(replies[s], m) # <<>>
    BY <2>1, <2>2
  <2> QED
    BY <1>1, <2>1, <2>2, <2>3
<1>3. /\ IsABag(pool') /\ BagToSet(pool') \subseteq BagToSet(pool)
      /\ BagToSet(pool) \ {task} \subseteq BagToSet(pool')
      /\ pool[task] = 1 => task \notin BagToSet(pool')
      /\ \A y \in BagToSet(pool') : y # task => pool'[y] = pool[y]
  BY <1>1, BagTake DEF IInv, WiresOK
<1>4. task[1] = s
  OBVIOUS
<1>5. \A s2, m2 : <<s2, m2>> = task <=> s2 = s /\ m2 = m
  OBVIOUS
<1> HIDE DEF task
<1>6. /\ \A u : Open(u)' <=> Open(u)
      /\ \A u \in Threads \ {s} : NoTask(u)' <=> NoTask(u)
      /\ \A u \in Threads \ {s} : Quiet(u)' <=> Quiet(u)
      /\ ~Quiet(s) /\ ~Quiet(s)'
      /\ \A u \in Threads : ReleaseIn(u)' => ReleaseIn(u)
      /\ \A u \in Threads : ReleaseFirst(u) => ReleaseFirst(u)'
      /\ \A u \in Threads : \A cmd : SentIn(u, cmd)' => SentIn(u, cmd)
  <2>1. \A u : Open(u)' <=> Open(u)
    BY <1>1 DEF Open
  <2>2. \A u \in Threads \ {s} : NoTask(u)' <=> NoTask(u)
    BY <1>3, <1>4 DEF NoTask
  <2>3. \A u \in Threads \ {s} : Quiet(u)' <=> Quiet(u)
    BY <1>1, <1>2, <2>2 DEF Quiet
  <2>4. ~Quiet(s) /\ ~Quiet(s)'
    BY <1>1, <1>2, <1>4 DEF Quiet, NoTask
  <2>5. \A u \in Threads : ReleaseIn(u)' => ReleaseIn(u)
    BY <1>1, <1>3 DEF ReleaseIn
  <2>6. \A u \in Threads : ReleaseFirst(u) => ReleaseFirst(u)'
    BY <1>1, <1>3, <1>5 DEF ReleaseFirst
  <2>7. \A u \in Threads : \A cmd : SentIn(u, cmd)' => SentIn(u, cmd)
    BY <1>1, <1>3 DEF SentIn
  <2> QED
    BY <2>1, <2>2, <2>3, <2>4, <2>5, <2>6, <2>7
<1>7. ASSUME NEW u \in Threads, NEW x \in Messages, Only(u, x) PROVE Only(u, x)'
  <2>1. CASE u = s
    <3>1. /\ inbox[s] = <<>> /\ replies[s] = <<>>
          /\ <<s, x>> \in BagToSet(pool) /\ pool[<<s, x>>] = 1
          /\ \A y \in BagToSet(pool) : y[1] = s => y = <<s, x>>
      BY <1>1, <1>4, <1>7, <2>1 DEF Only, NoTask
    <3>2. task = <<s, x>> /\ x = m
      BY <1>1, <1>4, <1>5, <3>1
    <3>3. NoTask(s)'
      BY <1>3, <3>1, <3>2 DEF NoTask
    <3>4. replies'[s] = <<x>>
      BY <1>2, <3>1, <3>2
    <3> QED
      BY <1>1, <2>1, <3>1, <3>3, <3>4 DEF Only
  <2>2. CASE u # s
    <3>1. \A y \in BagToSet(pool') : y[1] = u => y \in BagToSet(pool) /\ y # task /\ pool'[y] = pool[y]
      BY <1>3, <1>4, <2>2
    <3>2. CASE <<u, x>> \in BagToSet(pool)
      <4>1. <<u, x>> \in BagToSet(pool') /\ pool'[<<u, x>>] = pool[<<u, x>>]
        BY <1>3, <1>5, <2>2, <3>2
      <4> QED
        BY <1>1, <1>2, <1>6, <1>7, <2>2, <3>1, <3>2, <4>1 DEF Only
    <3>3. CASE <<u, x>> \notin BagToSet(pool)
      BY <1>1, <1>2, <1>6, <1>7, <2>2, <3>3 DEF Only
    <3> QED
      BY <3>2, <3>3
  <2> QED
    BY <2>1, <2>2
<1>8. WiresOK' /\ ServerOK'
  BY <1>1, <1>2, <1>3 DEF IInv, WiresOK, ServerOK
<1>9. Unused'
  <2>1. \A u \in Threads : Fresh(u) => u # s
    BY <1>6 DEF IInv, Unused
  <2> QED
    BY <1>1, <1>6, <2>1, ProxyApart DEF IInv, Unused
<1>10. Connections'
  BY <1>1, <1>6, ProxyApart DEF IInv, Connections
<1>11. Unreleased'
  BY <1>1, <1>6, ProxyApart DEF IInv, Unreleased
<1>12. OneRequest'
  BY <1>1, <1>6, <1>7, ProxyApart DEF IInv, OneRequest
<1>13. Answerable'
  <2>1. \A u \in Threads : Quiet(u)' => Quiet(u)
    BY <1>6
  <2> QED
    BY <1>1, <2>1, ProxyApart DEF IInv, Answerable, Working
<1>14. Noticed'
  BY <1>1, <1>6 DEF IInv, Noticed
<1>15. Invoked' /\ Released'
  <2>1. m_cSocketfd = None \/ m_cSocketfd \in Threads
    BY DEF IInv, ProxyOK, Sockets
  <2> QED
    BY <1>1, <1>6, <2>1, ProxyApart DEF IInv, Invoked, Released
<1> QED
  BY <1>1, <1>8, <1>9, <1>10, <1>11, <1>12, <1>13, <1>14, <1>15, ProxyApart DEF IInv

(* The end of the stub: nothing new appears, some things go.               *)
LEMMA StubEnds ==
    ASSUME IInv, UNCHANGED <<proxy, history>>, replies' = replies,
           stub' \in {"deleted", "dead"}, backlog' = <<>>, watched' \subseteq watched,
           edges' \subseteq edges, polled' \subseteq polled, connfd' \in Sockets,
           inbox' \in [Threads -> Seq(Messages)],
           \A u \in Threads : inbox'[u] \in {<<>>, inbox[u]},
           IsABag(pool'), BagToSet(pool') \subseteq BagToSet(pool),
           stub' = "deleted" => ReleaseSent,
           stub' = "dead" => /\ watched' = {} /\ BagToSet(pool') = {}
                             /\ \A u \in Threads : inbox'[u] = <<>>
    PROVE  IInv'
<1>1. WiresOK' /\ ServerOK'
  BY DEF IInv, WiresOK, ServerOK
<1>2. /\ \A u \in Threads : Quiet(u) => Quiet(u)'
      /\ \A u : Open(u)' => Open(u)
      /\ \A u \in Threads : \A cmd : SentIn(u, cmd)' => SentIn(u, cmd)
  <2>1. \A u \in Threads : NoTask(u) => NoTask(u)'
    BY DEF NoTask
  <2>2. \A u \in Threads : Quiet(u) => Quiet(u)'
    BY <2>1 DEF Quiet
  <2>3. \A u : Open(u)' => Open(u)
    BY DEF Open
  <2>4. ASSUME NEW u \in Threads, NEW cmd, SentIn(u, cmd)' PROVE SentIn(u, cmd)
    <3>1. CASE \E i \in 1 .. Len(inbox'[u]) : inbox'[u][i].cmd = cmd
      <4>1. inbox'[u] # <<>>
        BY <3>1
      <4> QED
        BY <3>1, <4>1 DEF SentIn
    <3>2. CASE \E y \in BagToSet(pool') : y[1] = u /\ y[2].cmd = cmd
      BY <3>2 DEF SentIn
    <3> QED
      BY <2>4, <3>1, <3>2 DEF SentIn
  <2> QED
    BY <2>2, <2>3, <2>4
<1>3. Unused'
  BY <1>2, ProxyApart DEF IInv, Unused
<1>4. Connections'
  BY ProxyApart DEF IInv, Connections
<1>5. Unreleased'
  <2>1. stub' = "dead" => \A u \in Threads : ~ReleaseIn(u)'
    BY DEF ReleaseIn
  <2>2. ASSUME NEW u \in Threads, ReleaseIn(u)' PROVE ReleaseIn(u)
    <3>1. inbox'[u] = <<>> => 1 .. Len(inbox'[u]) = {}
      OBVIOUS
    <3> QED
      BY <2>2, <3>1 DEF ReleaseIn
  <2> QED
    BY <2>1, <2>2, ProxyApart DEF IInv, Unreleased
<1>6. OneRequest'
  <2>1. SUFFICES ASSUME ~ReleaseSent
                 PROVE  \A u \in Threads \ timedOut : Quiet(u)' \/ Stale(u)' \/ Asked(u)'
    BY ProxyApart DEF OneRequest
  <2>2. BagToSet(pool') = {} /\ \A u \in Threads : inbox'[u] = <<>> /\ NoTask(u)'
    BY <2>1 DEF NoTask
  <2>3. ASSUME NEW u \in Threads \ timedOut, Asked(u)
        PROVE  Quiet(u)' \/ Asked(u)'
    <3>1. CASE replies[u] = <<>>
      BY <2>2, <3>1 DEF Quiet
    <3>2. CASE replies[u] # <<>>
      <4>1. \A x \in Messages : Only(u, x) => Only(u, x)'
        BY <2>2, <3>2 DEF Only
      <4> QED
        BY <2>3, <4>1, ProxyApart
    <3> QED
      BY <3>1, <3>2
  <2> QED
    BY <1>2, <2>1, <2>3, ProxyApart DEF IInv, OneRequest
<1>7. Answerable' /\ Noticed' /\ Released'
  BY DEF Answerable, Noticed, Released
<1>8. Invoked'
  BY <1>2, ProxyApart DEF IInv, Invoked, Timely, Late
<1> QED
  BY <1>1, <1>3, <1>4, <1>5, <1>6, <1>7, <1>8, ProxyApart DEF IInv

(* RELEASE deletes the stub: it was sent, so that no caller waits.         *)
LEMMA TransactReleaseStep ==
    ASSUME IInv, NEW s \in Threads, TransactRelease(s)
    PROVE  IInv'
<1>1. /\ <<s, Release>> \in BagToSet(pool)
      /\ UNCHANGED <<proxy, history>> /\ UNCHANGED <<replies, polled>>
      /\ stub' = "deleted" /\ backlog' = <<>> /\ watched' \subseteq watched /\ edges' \subseteq edges
      /\ connfd' \in Sockets
      /\ pool' = pool (-) SetToBag({<<s, Release>>})
      /\ inbox' = [inbox EXCEPT ![m_cConnfd] = <<>>]
  BY DEF TransactRelease, BagIn, BagToSet, IInv, ServerOK
<1>2. ReleaseSent
  BY <1>1 DEF IInv, Unreleased, ReleaseIn
<1>3. IsABag(pool') /\ BagToSet(pool') \subseteq BagToSet(pool)
  <2>1. IsABag(pool)
    BY DEF IInv, WiresOK
  <2> QED
    BY <1>1, <2>1, BagTake
<1>4. /\ inbox' \in [Threads -> Seq(Messages)]
      /\ \A u \in Threads : inbox'[u] \in {<<>>, inbox[u]}
  <2>1. inbox \in [Threads -> Seq(Messages)] /\ <<>> \in Seq(Messages)
    BY DEF IInv, WiresOK
  <2> QED
    BY <1>1, <2>1
<1> QED
  BY <1>1, <1>2, <1>3, <1>4, StubEnds

(* The stub's process ends, and nothing is under way any more but replies. *)
LEMMA DieStep ==
    ASSUME IInv, Die
    PROVE  IInv'
<1>1. /\ UNCHANGED <<proxy, history>> /\ UNCHANGED replies
      /\ stub' = "dead" /\ backlog' = <<>> /\ watched' = {} /\ edges' = {} /\ polled' = {}
      /\ inbox' = [u \in Threads |-> <<>>] /\ connfd' \in Sockets
      /\ IsABag(pool') /\ BagToSet(pool') = {}
  BY NoTasks DEF Die, Sockets
<1>2. inbox' \in [Threads -> Seq(Messages)]
  BY <1>1
<1> QED
  BY <1>1, <1>2, StubEnds

(* A callback on a closed socket removes itself.                           *)
LEMMA CallbackFailsStep ==
    ASSUME IInv, NEW s, CallbackFails(s)
    PROVE  IInv'
<1>1. /\ UNCHANGED <<proxy, history>>
      /\ UNCHANGED <<inbox, replies, pool, stub, connfd, backlog, watched, edges>>
      /\ polled' \subseteq polled /\ stub # "alive"
  BY DEF CallbackFails, wires
<1>2. \A u : Open(u)' <=> Open(u)
  BY <1>1 DEF Open
<1>3. WiresOK' /\ ServerOK'
  BY <1>1 DEF IInv, WiresOK, ServerOK
<1>4. Unused' /\ Connections' /\ Unreleased' /\ OneRequest'
  BY <1>1, <1>2, SameWires, ProxyApart DEF IInv, Unused, Connections, Unreleased, OneRequest
<1>5. Answerable' /\ Noticed' /\ Invoked' /\ Released'
  BY <1>1, <1>2, SameWires, ProxyApart DEF IInv, Answerable, Noticed, Invoked, Released
<1> QED
  BY <1>1, <1>3, <1>4, <1>5, ProxyApart DEF IInv

(* Nothing happens.                                                        *)
LEMMA StutterStep ==
    ASSUME IInv, UNCHANGED vars
    PROVE  IInv'
BY RecipientsApart DEF IInv, ProxyOK, vars, proxy

(***************************************************************************)
(* RpcChannel: the invariant and what follows from it.                     *)
(***************************************************************************)

(* Nobody has called.                                                      *)
LEMMA Initially ==
    ASSUME Init
    PROVE  IInv
<1> USE DEF Init
<1>1. /\ \A t \in Threads : agent[Caller(t)].pc = "idle" /\ agent[Pinger(t)].pc = "none"
      /\ agent \in [Agents -> AgentState]
      /\ \A a \in Agents : agent[a].id = 0
      /\ \A a \in Agents : ~Waits(a) /\ agent[a].pc # "recv"
  <2>1. At("idle") \in AgentState /\ At("none") \in AgentState
    BY DEF At, AgentState, CallPlaces, PingPlaces, Sockets
  <2>2. /\ At("idle").pc = "idle" /\ At("none").pc = "none"
        /\ At("idle").id = 0 /\ At("none").id = 0
    BY DEF At
  <2>3. \A a \in Agents : agent[a] = At("idle") \/ agent[a] = At("none")
    OBVIOUS
  <2>4. \A t \in Threads : agent[Caller(t)] = At("idle") /\ agent[Pinger(t)] = At("none")
    BY Names
  <2>5. agent \in [Agents -> AgentState]
    BY <2>1
  <2> QED
    BY <2>2, <2>3, <2>4, <2>5 DEF Waits
<1>2. BagToSet(pool) = {} /\ IsABag(pool)
  BY NoTasks
<1>3. \A s \in Threads : Quiet(s) /\ inbox[s] = <<>>
  BY <1>2 DEF Quiet, NoTask
<1>4. ~ReleaseSent /\ ~Gone
  BY <1>1 DEF ReleaseSent, Gone
<1>5. AgentsOK
  BY <1>1 DEF AgentsOK, CallPlaces, PingPlaces
<1>6. ProxyOK /\ WiresOK /\ ServerOK
  BY <1>2 DEF ProxyOK, WiresOK, ServerOK, Sockets
<1>7. Left /\ Working
  BY <1>1 DEF Left, Leaving, Working
<1>8. Unused
  <2>1. \A s : ~Open(s)
    BY DEF Open
  <2>2. \A s \in Threads : m_cSocketfd # s
    BY Names
  <2> QED
    BY <1>1, <1>3, <2>1, <2>2 DEF Unused
<1>9. Connections /\ Pinging
  <2>1. 1 .. Len(backlog) = {} /\ stub = "alive" /\ m_cSocketfd = None /\ m_pPingTask = None
    OBVIOUS
  <2>2. /\ \A t \in Threads : agent[Caller(t)].pc \notin {"connected", "started"}
        /\ \A t \in Threads : agent[Pinger(t)].pc # "wild"
        /\ signalled = {}
    BY <1>1
  <2> QED
    BY ONLY <1>1, <1>4, <2>1, <2>2 DEF Connections, Pinging
<1>10. Unreleased
  BY <1>2, <1>3 DEF Unreleased, ReleaseIn
<1>11. OneRequest /\ Answerable /\ Noticed
  BY <1>1, <1>3 DEF OneRequest, Answerable, Noticed
<1>12. Invoked /\ NoneWaits /\ Released
  BY <1>2, <1>3, <1>4 DEF Invoked, SentIn, NoneWaits, Late, Released
<1> QED
  BY <1>5, <1>6, <1>7, <1>8, <1>9, <1>10, <1>11, <1>12 DEF IInv

(* Every action keeps the invariant.                                       *)
LEMMA Inductive == IInv /\ [Next]_vars => IInv'
<1> SUFFICES ASSUME IInv, [Next]_vars
             PROVE  IInv'
  OBVIOUS
<1>1. ASSUME NEW t \in Threads, CallerStep(t)
      PROVE  IInv'
  <2>1. CASE Call(t) \/ Begin(t) \/ SendFails(t)
    BY <2>1, CallStep, ConnectStep, ConnectedStep, PingTaskStartedStep, SendFailsStep DEF Begin
  <2>2. CASE Drop(t) \/ SendRelease(t) \/ DeleteProxy(t)
    BY <2>2, DropStep, SendReleaseStep, DeleteProxyStep
  <2>3. CASE \E r \in Recipients : LinkToDeath(t, r) \/ UnlinkToDeath(t, r)
    BY <2>3, LinkStep
  <2> QED
    BY <1>1, <2>1, <2>2, <2>3 DEF CallerStep
<1>2. ASSUME NEW a \in Agents, SendStep(a)
      PROVE  IInv'
  BY <1>2, SendMessageStep, BrokenPipeStep DEF SendStep
<1>3. ASSUME NEW a \in Agents, Proceed(a) \/ SiguserHandler(a)
      PROVE  IInv'
  BY <1>3, EnterRecvStep, ReceiveStep, ReceiveFailsStep, StubDiedStep, SiguserHandlerStep
     DEF Proceed
<1>4. CASE ServerStep
  <2>1. CASE Poll \/ ListenCallback \/ StoreConnfd
    BY <2>1, PollStep, ListenCallbackStep, StoreConnfdStep
  <2>2. CASE \E s \in Threads : AcceptCallback(s) \/ TransactRelease(s)
    BY <2>2, AcceptCallbackStep, TransactReleaseStep
  <2>3. CASE \E s \in polled : CallbackFails(s)
    BY <2>3, CallbackFailsStep
  <2>4. CASE \E task \in BagToSet(pool) : Transact(task[1], task[2])
    BY <2>4, TransactStep
  <2> QED
    BY <1>4, <2>1, <2>2, <2>3, <2>4 DEF ServerStep
<1>5. CASE Die
  BY <1>5, DieStep
<1>6. CASE UNCHANGED vars
  BY <1>6, StutterStep
<1>7. ASSUME NEW t \in Threads, UseFreedProxy(Pinger(t))
      PROVE  IInv'
  BY <1>7, UseFreedProxyStep
<1> QED
  BY <1>1, <1>2, <1>3, <1>4, <1>5, <1>6, <1>7 DEF Next

(* The inductive invariant: what is under way on each socket, and whom it  *)
(* is for.                                                                 *)
THEOREM Invariance == Spec => []IInv
<1>1. Init => IInv
  BY Initially
<1> QED
  BY <1>1, Inductive, PTL DEF Spec

(* Members of a finite set, listed once each, and those of a subset that   *)
(* has none of them, are no more than there are in the set.                *)
LEMMA Fits ==
    ASSUME NEW S, IsFiniteSet(S), NEW T \in SUBSET S, NEW list \in Seq(S),
           \A i, j \in 1 .. Len(list) : list[i] = list[j] => i = j,
           \A i \in 1 .. Len(list) : list[i] \notin T
    PROVE  Len(list) + Cardinality(T) <= Cardinality(S)
<1> DEFINE N == Len(list)
           U == S \ T
<1>1. N \in Nat /\ IsFiniteSet(T) /\ IsFiniteSet(U)
  BY FS_Subset
<1>2. Cardinality(1 .. N) = N
  <2>1. Cardinality(1 .. N) = IF 1 > N THEN 0 ELSE N - 1 + 1
    BY <1>1, FS_Interval
  <2> QED
    BY <1>1, <2>1
<1>3. list \in Injection(1 .. N, U)
  BY DEF Injection, IsInjective
<1>4. Cardinality(1 .. N) <= Cardinality(U)
  BY <1>1, <1>3, FS_Injection
<1>5. Cardinality(U) = Cardinality(S) - Cardinality(T)
  <2>1. S \cap T = T
    OBVIOUS
  <2> QED
    BY <2>1, FS_Difference
<1>6. Cardinality(T) \in Nat /\ Cardinality(S) \in Nat /\ Cardinality(U) \in Nat
  BY <1>1, FS_CardinalityType
<1> QED
  BY <1>1, <1>2, <1>4, <1>5, <1>6

(* The types, with the lock of whoever waits, and room for every           *)
(* connection.                                                             *)
THEOREM TypeCorrect == Spec => []TypeOK
<1>1. IInv => TypeOK
  <2> SUFFICES ASSUME IInv
               PROVE  TypeOK
    OBVIOUS
  <2>1. m_cSocketfd \in Threads \cup {None} /\ m_Lock \in Agents \cup {None}
    BY DEF IInv, ProxyOK, Sockets
  <2>2. m_pPingTask \in (Threads \X {"pinger"}) \cup {None}
    BY DEF IInv, ProxyOK, Pinger
  <2>3. m_pOrgue = None \/ m_pOrgue \subseteq Recipients
    BY DEF IInv, ProxyOK
  <2>4. ASSUME NEW a \in Agents
        PROVE  /\ agent[a].on \in Threads \cup {None}
               /\ agent[a].id \in 0 .. calls
               /\ agent[a].pc \in {"sent", "recv"} => m_Lock = a
    <3>1. agent[a] \in AgentState /\ calls \in Nat /\ agent[a].id <= calls
      BY DEF IInv, AgentsOK
    <3>2. agent[a].pc \in {"sent", "recv"} => m_Lock = a
      BY DEF IInv, Working, Waits
    <3> QED
      BY <3>1, <3>2 DEF AgentState, Sockets
  <2>5. /\ stub \in {"alive", "deleted", "dead"} /\ watched \subseteq Threads
        /\ connfd \in Threads \cup {None} /\ signalled \subseteq Threads \X {"pinger"}
    BY DEF IInv, ServerOK, ProxyOK, Sockets
  <2>6. edges \cup polled \subseteq Threads \cup {Listen}
    BY DEF IInv, ServerOK
  <2>7. Len(backlog) + Cardinality(watched) <= Cardinality(Threads)
    BY Fits, ThreadsAssumption DEF IInv, ServerOK, Connections
  <2> QED
    BY <2>1, <2>2, <2>3, <2>4, <2>5, <2>6, <2>7 DEF TypeOK
<1> QED
  BY <1>1, Invariance, PTL

(* A caller leaves recv for the end of its call only by taking a reply.    *)
LEMMA OnlyReceiveReturns ==
    ASSUME IInv, [Next]_vars, NEW t \in Threads,
           agent[Caller(t)].pc = "recv", agent'[Caller(t)].pc = "idle"
    PROVE  Receive(Caller(t))
<1> DEFINE c == Caller(t)
<1>1. c \in Agents /\ agent'[c] # agent[c] /\ agent \in [Agents -> AgentState]
  BY Names DEF IInv, AgentsOK
<1>2. ASSUME NEW u \in Threads, CallerStep(u)
      PROVE  FALSE
  <2>1. u = t => agent[Caller(u)].pc = "recv"
    OBVIOUS
  <2>2. Caller(u) # c => u # t
    OBVIOUS
  <2>3. u # t => Caller(u) # c
    BY Names
  <2>4. c # Pinger(u)
    BY Names
  <2> HIDE DEF c
  <2>5. CASE Call(u)
    BY <1>1, <2>1, <2>3, <2>5 DEF Call
  <2>6. CASE Begin(u)
    <3>1. CASE Connect(u)
      BY <1>1, <2>1, <2>3, <3>1 DEF Connect, Goto, Return
    <3>2. CASE Connected(u)
      BY <1>1, <2>1, <2>3, <2>4, <3>2 DEF Connected, Goto
    <3>3. CASE PingTaskStarted(u)
      BY <1>1, <2>1, <2>3, <3>3 DEF PingTaskStarted, Goto
    <3> QED
      BY <2>6, <3>1, <3>2, <3>3 DEF Begin
  <2>7. CASE SendFails(u) \/ Drop(u) \/ SendRelease(u) \/ DeleteProxy(u)
    BY <1>1, <2>1, <2>3, <2>7 DEF SendFails, Drop, SendRelease, DeleteProxy, Goto, Return
  <2>8. CASE \E r \in Recipients : LinkToDeath(u, r) \/ UnlinkToDeath(u, r)
    BY <1>1, <2>8 DEF LinkToDeath, UnlinkToDeath
  <2> QED
    BY <1>2, <2>5, <2>6, <2>7, <2>8 DEF CallerStep
<1>3. ASSUME NEW a \in Agents, SendStep(a)
      PROVE  FALSE
  <2> HIDE DEF c
  <2>1. a # c
    BY <1>3 DEF SendStep, Send, BrokenPipe, c
  <2> QED
    BY <1>1, <1>3, <2>1 DEF SendStep, Send, BrokenPipe
<1>4. ASSUME NEW a \in Agents, Proceed(a)
      PROVE  Receive(c)
  <2> HIDE DEF c
  <2>1. a = c
    BY <1>1, <1>4 DEF Proceed, EnterRecv, Receive, ReceiveFails, StubDied, Return
  <2>2. CASE EnterRecv(a) \/ StubDied(a)
    BY <2>1, <2>2 DEF EnterRecv, StubDied, c
  <2>3. CASE ReceiveFails(a)
    BY <1>1, <2>1, <2>3 DEF ReceiveFails, Return, At, c
  <2> QED
    BY <1>4, <2>1, <2>2, <2>3 DEF Proceed
<1>5. CASE ServerStep
  <2>1. agent' = agent
    BY <1>5 DEF ServerStep, Poll, ListenCallback, StoreConnfd, AcceptCallback, TransactRelease,
                CallbackFails, Transact, proxy
  <2> QED
    BY <1>1, <2>1
<1>6. CASE Die \/ UNCHANGED vars
  BY <1>1, <1>6 DEF Die, vars, proxy
<1>7. ASSUME NEW a \in Agents, NEW p \in {"ended", "wild"}, Return(a, p)
      PROVE  FALSE
  <2>1. At(p).pc = p
    BY DEF At
  <2> QED
    BY <1>1, <1>7, <2>1 DEF Return
<1>8. ASSUME NEW a \in Agents, SiguserHandler(a) \/ UseFreedProxy(a)
      PROVE  FALSE
  BY <1>7, <1>8 DEF SiguserHandler, UseFreedProxy
<1> QED
  BY <1>2, <1>3, <1>4, <1>5, <1>6, <1>8, Names DEF Next

(* A call returns with its own reply, unless somebody gave up on its       *)
(* socket: until then there is at most one message under way on a socket,  *)
(* and it is that of the agent that has the lock (ProxyEntry,              *)
(* TransactRunnable).                                                      *)
THEOREM RepliesAreOwn == Spec => OwnReply
<1>1. IInv /\ [Next]_vars =>
        [\A t \in Threads :
           LET c == agent[Caller(t)] IN
           (c.pc = "recv" /\ agent'[Caller(t)].pc = "idle") =>
             Head(replies[c.on]).id = c.id \/ c.on \in timedOut]_vars
  <2> SUFFICES ASSUME IInv, [Next]_vars, NEW t \in Threads,
                      agent[Caller(t)].pc = "recv", agent'[Caller(t)].pc = "idle",
                      agent[Caller(t)].on \notin timedOut
               PROVE  Head(replies[agent[Caller(t)].on]).id = agent[Caller(t)].id
    OBVIOUS
  <2>1. replies[agent[Caller(t)].on] # <<>>
    BY OnlyReceiveReturns DEF Receive
  <2>2. ~ReleaseSent
    BY InCall DEF Leaving
  <2>3. replies[agent[Caller(t)].on] = <<Message(Caller(t))>>
    BY <2>1, <2>2, Names, Answered
  <2>4. Message(Caller(t)) = Invoke(agent[Caller(t)].id)
    BY Names DEF Message
  <2> QED
    BY <2>3, <2>4 DEF Invoke
<1> QED
  BY <1>1, Invariance, PTL DEF Spec, OwnReply

(* What has arrived on a socket that is not overlooked will be noticed.    *)
LEMMA ArrivedIsNoted ==
    ASSUME IInv, stub = "alive", NEW s \in Threads, inbox[s] # <<>>, ~Overlooked(s)
    PROVE  Noted(s)
<1>1. CASE s \in watched
  BY <1>1 DEF IInv, Noticed, Noted
<1>2. CASE s \notin watched
  <2>1. watched = {} /\ Open(s)
    BY <1>2 DEF Overlooked, IInv, Noticed
  <2>2. backlog # <<>>
    BY <1>2, <2>1 DEF Open
  <2> QED
    BY <1>2, <2>1, <2>2 DEF IInv, Noticed, Noted
<1> QED
  BY <1>1, <1>2

(* Who waits has something on its way that will be noticed, though the     *)
(* Looper is told only once of what arrives, and a recv may take several   *)
(* messages: up to a socket that was replaced under way and a connection   *)
(* that was overlooked.                                                    *)
THEOREM NothingIsLost == Spec => []NoLostRequest
<1>1. IInv => NoLostRequest
  <2> SUFFICES ASSUME IInv, NEW a \in Agents, agent[a].pc = "recv", agent[a].sentOn = agent[a].on,
                      stub = "alive", ~Overlooked(agent[a].on)
               PROVE  OnItsWay(agent[a].on)
    BY DEF NoLostRequest
  <2>1. agent[a].on \in Threads /\ ~Quiet(agent[a].on)
    BY DEF IInv, Working, Answerable, Waits
  <2> QED
    BY <2>1, ArrivedIsNoted DEF Quiet, NoTask, OnItsWay
<1> QED
  BY <1>1, Invariance, PTL

(* The RELEASE of a proxy that has gone is not behind, or read along with, *)
(* anything else, unless a ping had the lock when it was sent or somebody  *)
(* had given up on the socket.                                             *)
THEOREM ReleaseIsFirst == Spec => []ReleaseArrives
<1>1. IInv => ReleaseArrives
  <2> SUFFICES ASSUME IInv, Gone, m_cSocketfd # None, stub = "alive", ~crowded,
                      m_cSocketfd \notin timedOut, ~Overlooked(m_cSocketfd)
               PROVE  \/ BagIn(<<m_cSocketfd, Release>>, pool)
                      \/ /\ inbox[m_cSocketfd] # <<>> /\ Head(inbox[m_cSocketfd]) = Release
                         /\ Noted(m_cSocketfd)
    BY DEF ReleaseArrives
  <2>1. ReleaseSent /\ m_cSocketfd \in Threads
    BY DEF Gone, ReleaseSent, IInv, ProxyOK, Sockets
  <2>2. ReleaseFirst(m_cSocketfd)
    BY <2>1 DEF IInv, Released
  <2> QED
    BY <2>1, <2>2, ArrivedIsNoted DEF ReleaseFirst, BagIn, BagToSet
<1> QED
  BY <1>1, Invariance, PTL

(***************************************************************************)
(* RpcChannel: every connection that the Looper was told of is accepted    *)
(* and stored when RELEASE is read.                                        *)
(***************************************************************************)

(* What adds no event of a connection, and no message to be read first,    *)
(* keeps what has been accepted so.                                        *)
LEMMA AcceptedKept ==
    ASSUME Accepted,
           stub' = "alive" /\ ~Connecting' /\ m_cSocketfd' # None =>
               /\ stub = "alive" /\ ~Connecting /\ m_cSocketfd' = m_cSocketfd
               /\ HeardOf(m_cSocketfd)' => HeardOf(m_cSocketfd),
           Listen \in edges' => Listen \in edges, polled' \subseteq polled,
           connfd' \in {None, connfd},
           stub' = "deleted" => stub = "deleted" \/ \E s \in Threads : <<s, Release>> \in BagToSet(pool),
           \A s \in Threads : <<s, Release>> \in BagToSet(pool') => <<s, Release>> \in BagToSet(pool)
    PROVE  Accepted'
BY DEF Accepted

(* An agent moves, and nothing is sent or read.                            *)
LEMMA AcceptedAside ==
    ASSUME IInv, Accepted, NEW a \in Agents, NEW p, MovesTo(a, p),
           stub = "alive" /\ a[2] = "caller" =>
               /\ agent[a].pc \in {"connect", "connected"} => p \in {"connect", "connected"}
               /\ agent[a].pc \in {"started", "ready"} => p \in {"started", "ready"},
           UNCHANGED <<m_cSocketfd, server, inbox>>
    PROVE  Accepted'
<1>1. UNCHANGED <<stub, connfd, edges, polled, pool>>
  BY DEF server
<1>2. ASSUME NEW t \in Threads, stub = "alive"
      PROVE  /\ agent[Caller(t)].pc \in {"connect", "connected"}
                  => agent'[Caller(t)].pc \in {"connect", "connected"}
             /\ agent[Caller(t)].pc \in {"started", "ready"}
                  => agent'[Caller(t)].pc \in {"started", "ready"}
  BY <1>2, Names DEF MovesTo
<1>3. stub = "alive" => (Connecting => Connecting')
  BY <1>2 DEF Connecting
<1>4. stub = "alive" /\ m_cSocketfd # None => (HeardOf(m_cSocketfd)' => HeardOf(m_cSocketfd))
  BY <1>2 DEF HeardOf, IInv, ProxyOK, Sockets
<1> QED
  BY <1>1, <1>3, <1>4, AcceptedKept

(* What a caller does aside from connecting and sending.                   *)
LEMMA CallerAccepted ==
    ASSUME IInv, Accepted, NEW t \in Threads,
           \/ Call(t) \/ PingTaskStarted(t) \/ SendFails(t) \/ Drop(t) \/ DeleteProxy(t)
           \/ Connect(t) /\ stub # "alive"
    PROVE  Accepted'
<1> DEFINE a == Caller(t)
<1>1. a \in Agents
  BY Names
<1>2. CASE Call(t)
  <2> DEFINE p == IF m_cSocketfd = None THEN "connect" ELSE "ready"
  <2>1. MovesTo(a, p) /\ agent[a].pc = "idle" /\ UNCHANGED <<m_cSocketfd, server, inbox>>
    BY <1>2, CallMoves DEF Call, wires
  <2> HIDE DEF a, p
  <2> QED
    BY <1>1, <2>1, AcceptedAside
<1>3. CASE PingTaskStarted(t)
  <2>1. MovesTo(a, "ready") /\ agent[a].pc = "started" /\ UNCHANGED <<m_cSocketfd, server, inbox>>
    BY <1>1, <1>3, GotoMoves DEF IInv, PingTaskStarted, CallPlaces, wires
  <2> HIDE DEF a
  <2> QED
    BY <1>1, <2>1, AcceptedAside
<1>4. CASE SendFails(t)
  <2>1. MovesTo(a, "idle") /\ agent[a].pc = "ready" /\ UNCHANGED <<m_cSocketfd, server, inbox>>
    BY <1>1, <1>4, ReturnMoves DEF IInv, SendFails, CallPlaces, wires
  <2>2. stub # "alive"
    BY <1>1, <1>4, HasSocket, Names DEF SendFails, IInv, Connections
  <2> HIDE DEF a
  <2> QED
    BY <1>1, <2>1, <2>2, AcceptedAside
<1>5. CASE Drop(t)
  <2> DEFINE p == IF held = {t} THEN "release" ELSE "idle"
  <2>1. Goto(a, p) /\ agent[a].pc = "idle" /\ UNCHANGED <<m_cSocketfd, server, inbox>>
    BY <1>5 DEF Drop, wires
  <2>2. p \in CallPlaces
    BY DEF CallPlaces
  <2> HIDE DEF a, p
  <2>3. MovesTo(a, p)
    BY <1>1, <2>1, <2>2, GotoMoves DEF IInv
  <2> QED
    BY <1>1, <2>1, <2>3, AcceptedAside
<1>6. CASE DeleteProxy(t)
  <2>1. MovesTo(a, "gone") /\ agent[a].pc = "delete" /\ UNCHANGED <<m_cSocketfd, server, inbox>>
    BY <1>1, <1>6, GotoMoves DEF IInv, DeleteProxy, CallPlaces, wires
  <2> HIDE DEF a
  <2> QED
    BY <1>1, <2>1, AcceptedAside
<1>7. CASE Connect(t) /\ stub # "alive"
  <2>1. MovesTo(a, "idle") /\ UNCHANGED <<m_cSocketfd, server, inbox>>
    BY <1>1, <1>7, ReturnMoves DEF IInv, Connect, CallPlaces, server, wires
  <2> HIDE DEF a
  <2> QED
    BY <1>1, <1>7, <2>1, AcceptedAside
<1> QED
  BY <1>2, <1>3, <1>4, <1>5, <1>6, <1>7

(* What an agent does once it has begun, and how a ping task ends.         *)
LEMMA ProceedAccepted ==
    ASSUME IInv, Accepted, NEW a \in Agents,
           Proceed(a) \/ SiguserHandler(a) \/ (UseFreedProxy(a) /\ a[2] = "pinger")
    PROVE  Accepted'
<1>1. CASE EnterRecv(a)
  <2>1. MovesTo(a, "recv") /\ agent[a].pc = "sent" /\ UNCHANGED <<m_cSocketfd, server, inbox>>
    BY <1>1, EnterRecvMoves DEF EnterRecv, wires
  <2> QED
    BY <2>1, AcceptedAside
<1>2. CASE StubDied(a) /\ m_pOrgue = None
  <2>1. MovesTo(a, agent[a].pc) /\ UNCHANGED <<m_cSocketfd, server, inbox>>
    BY <1>2 DEF StubDied, wires, MovesTo, IInv, AgentsOK
  <2> QED
    BY <2>1, AcceptedAside
<1>3. ASSUME NEW p \in CallPlaces \cup PingPlaces, Return(a, p),
             a[2] = "caller" => agent[a].pc \notin {"connect", "connected", "started", "ready"},
             UNCHANGED <<m_cSocketfd, server, inbox>>
      PROVE  Accepted'
  <2>1. MovesTo(a, p)
    BY <1>3, ReturnMoves DEF IInv
  <2> QED
    BY <1>3, <2>1, AcceptedAside
<1>4. CASE Receive(a)
  BY <1>3, <1>4 DEF Receive, CallPlaces
<1>5. CASE ReceiveFails(a)
  BY <1>3, <1>5 DEF ReceiveFails, CallPlaces, wires
<1>6. CASE StubDied(a) /\ m_pOrgue # None
  BY <1>3, <1>6 DEF StubDied, CallPlaces, PingPlaces, wires
<1>7. CASE SiguserHandler(a)
  <2>1. a[2] = "pinger"
    BY <1>7 DEF SiguserHandler, IInv, ProxyOK
  <2> QED
    BY <1>3, <1>7, <2>1 DEF SiguserHandler, PingPlaces, wires
<1>8. CASE UseFreedProxy(a) /\ a[2] = "pinger"
  BY <1>3, <1>8 DEF UseFreedProxy, PingPlaces, wires
<1> QED
  BY <1>1, <1>2, <1>4, <1>5, <1>6, <1>7, <1>8 DEF Proceed

(* A connection is made only while no socket is the proxy's last.          *)
LEMMA ConnectAccepted ==
    ASSUME IInv, Accepted, NEW t \in Threads, Connect(t), stub = "alive"
    PROVE  Accepted'
<1>1. Caller(t) \in Agents /\ agent[Caller(t)].pc = "connect" /\ ~ReleaseSent
  BY Names, InCall DEF Connect, Leaving
<1>2. MovesTo(Caller(t), "connected") /\ UNCHANGED <<stub, pool>>
  BY <1>1, GotoMoves DEF IInv, Connect, CallPlaces
<1>3. Connecting'
  BY <1>2 DEF Connecting, MovesTo
<1>4. \A s \in Threads : <<s, Release>> \notin BagToSet(pool)
  BY <1>1 DEF IInv, Unreleased, ReleaseIn
<1> QED
  BY <1>2, <1>3, <1>4 DEF Accepted

(* Nothing has been read from a socket that has just become the proxy's,   *)
(* nor is it to be read.                                                   *)
LEMMA ConnectedAccepted ==
    ASSUME IInv, Accepted, NEW t \in Threads, Connected(t)
    PROVE  Accepted'
<1>1. agent[Caller(t)].pc = "connected" /\ m_cSocketfd' = t /\ UNCHANGED server
  BY DEF Connected
<1>2. t \notin edges \cup polled
  BY <1>1 DEF IInv, Unused, Fresh
<1>3. agent'[Caller(t)].pc \in {"started", "ready"}
  <2>1. Caller(t) \in Agents /\ Pinger(t) \in Agents /\ Caller(t) # Pinger(t)
    BY Names
  <2>2. PICK r \in AgentState : r = agent[Caller(t)]
    BY <2>1 DEF IInv, AgentsOK
  <2>3. PICK r2 \in AgentState : r2 = agent[Pinger(t)]
    BY <2>1 DEF IInv, AgentsOK
  <2>4. \/ agent' = [agent EXCEPT ![Caller(t)] = [r EXCEPT !.pc = "started"],
                                  ![Pinger(t)] = [r2 EXCEPT !.pc = "ready"]]
        \/ agent' = [agent EXCEPT ![Caller(t)] = [r EXCEPT !.pc = "ready"]]
    BY <2>1, <2>2, <2>3 DEF Connected, Goto, IInv, AgentsOK
  <2> QED
    BY <2>1, <2>2, <2>4 DEF IInv, AgentsOK, AgentState
<1>4. ~HeardOf(t)'
  BY <1>3 DEF HeardOf
<1>5. UNCHANGED <<stub, connfd, edges, polled, pool>>
  BY <1>1 DEF server
<1> QED
  BY <1>1, <1>2, <1>4, <1>5 DEF Accepted

(* Who sends has been heard of before only if it sends no first message.   *)
LEMMA SentAccepted ==
    ASSUME IInv, Accepted, NEW a \in Agents, NEW p, MovesTo(a, p), NEW m \in Messages,
           Sent(m_cSocketfd, m),
           \/ agent[a].pc = "ready" /\ p = "sent" /\ m # Release /\ m_cSocketfd # None
           \/ agent[a].pc \notin {"ready", "started", "connect", "connected"},
           agent[a].pc = "ready" /\ a[2] = "caller" => ~ReleaseSent,
           UNCHANGED <<m_cSocketfd, stub, connfd, backlog, watched, polled, pool, replies, timedOut>>
    PROVE  Accepted'
<1> DEFINE s == m_cSocketfd
<1>1. s \in Sockets
  BY DEF IInv, ProxyOK
<1>2. /\ edges' \subseteq edges \cup {s}
      /\ s # None /\ Open(s) => inbox'[s] = Append(inbox[s], m)
      /\ \A u \in Threads : inbox[u] # <<>> => inbox'[u] # <<>> /\ Head(inbox'[u]) = Head(inbox[u])
  BY <1>1, MessageSent
<1> HIDE DEF s
<1>3. Connecting => Connecting'
  <2>1. \A t \in Threads : agent[Caller(t)].pc \in {"connect", "connected"}
                             => agent'[Caller(t)] = agent[Caller(t)]
    BY Names DEF MovesTo
  <2> QED
    BY <2>1 DEF Connecting
<1>4. ASSUME stub = "alive", s # None, HeardOf(s)'
      PROVE  HeardOf(s)
  <2>1. s \in Threads /\ Open(s) /\ inbox[s] \in Seq(Messages) /\ s' = s
    BY <1>1, <1>4 DEF IInv, Connections, WiresOK, Sockets, s
  <2>2. inbox'[s] # <<>> /\ Head(inbox'[s]) = Release
    BY <1>2, <1>4, <2>1 DEF HeardOf
  <2>3. inbox[s] = <<>> \/ Head(inbox[s]) = Release
    BY <1>2, <2>1, <2>2
  <2>4. CASE a # Caller(s)
    BY <1>4, <2>1, <2>3, <2>4, Names DEF HeardOf, MovesTo
  <2>5. CASE a = Caller(s) /\ agent[a].pc = "ready"
    <3>1. ~ReleaseSent
      BY <2>1, <2>5, Names
    <3>2. ~\E i \in 1 .. Len(inbox[s]) : inbox[s][i] = Release
      BY <2>1, <3>1 DEF IInv, Unreleased, ReleaseIn
    <3>3. inbox[s] = <<>>
      BY <2>1, <2>3, <3>2
    <3>4. inbox'[s] = Append(<<>>, m) /\ m # Release
      BY <1>2, <1>4, <2>1, <2>5, <3>3
    <3> QED
      BY <2>2, <3>4
  <2>6. CASE a = Caller(s) /\ agent[a].pc # "ready"
    BY <2>3, <2>6 DEF HeardOf
  <2> QED
    BY <2>4, <2>5, <2>6
<1>5. Listen \in edges' => Listen \in edges
  BY <1>1, Names DEF Sent, Sockets, s
<1> QED
  BY <1>3, <1>4, <1>5, AcceptedKept DEF s

(* The message is no RELEASE, or its sender the last caller.               *)
LEMMA MessagesAccepted ==
    ASSUME IInv, Accepted, \/ \E a \in Agents : Send(a)
                           \/ \E t \in Threads : SendRelease(t)
    PROVE  Accepted'
<1>1. ASSUME NEW a \in Agents, Send(a)
      PROVE  Accepted'
  <2>1. /\ agent[a].pc = "ready" /\ MovesTo(a, "sent") /\ m_cSocketfd # None
        /\ Sent(m_cSocketfd, Message(a))
        /\ UNCHANGED <<m_cSocketfd, stub, connfd, backlog, watched, polled, pool, replies, timedOut>>
    BY <1>1, SendMoves, HasSocket, Names DEF Send
  <2>2. Message(a) \in Messages /\ Message(a) # Release
    <3>1. agent[a].id \in Nat
      BY DEF IInv, AgentsOK, AgentState
    <3> QED
      BY <3>1 DEF Message, Messages, Invoke, Ping, Release
  <2>3. PICK m \in Messages : m = Message(a)
    BY <2>2
  <2>4. a[2] = "caller" => ~ReleaseSent
    <3>1. ASSUME NEW t \in Threads, a = Caller(t) PROVE ~ReleaseSent
      BY <2>1, <3>1, InCall DEF Leaving
    <3> QED
      BY <3>1, Names
  <2> QED
    BY <2>1, <2>2, <2>3, <2>4, SentAccepted
<1>2. ASSUME NEW t \in Threads, SendRelease(t)
      PROVE  Accepted'
  <2>1. /\ Caller(t) \in Agents /\ agent[Caller(t)].pc = "release"
        /\ Sent(m_cSocketfd, Release)
        /\ UNCHANGED <<m_cSocketfd, stub, connfd, backlog, watched, polled, pool, replies, timedOut>>
    BY <1>2, Names DEF SendRelease
  <2>2. MovesTo(Caller(t), "delete")
    BY <1>2, <2>1, GotoMoves DEF IInv, SendRelease, CallPlaces
  <2>3. Release \in Messages
    BY DEF Release, Messages
  <2> QED
    BY <2>1, <2>2, <2>3, SentAccepted
<1> QED
  BY <1>1, <1>2

(* The Looper: a connection's event is polled no later than the message    *)
(* that was sent on it, and its callback runs in the same round.           *)
LEMMA LooperAccepted ==
    ASSUME IInv, Accepted,
           Poll \/ ListenCallback \/ StoreConnfd \/ (\E s \in polled : CallbackFails(s))
    PROVE  Accepted'
<1>1. /\ UNCHANGED <<agent, m_cSocketfd, inbox, stub, pool>>
      /\ Connecting' <=> Connecting
      /\ \A s : HeardOf(s)' <=> HeardOf(s)
  BY DEF Poll, ListenCallback, StoreConnfd, CallbackFails, proxy, wires, Connecting, HeardOf
<1>2. CASE Poll
  <2>1. /\ edges' = {} /\ polled' = edges /\ polled = {} /\ connfd = None /\ connfd' = None
    BY <1>2 DEF Poll
  <2> QED
    BY <1>1, <2>1 DEF Accepted
<1>3. CASE ListenCallback
  <2>1. /\ Listen \in polled /\ polled' \subseteq polled
        /\ Listen \in edges' => Listen \in edges
    BY <1>3, NamesAssumption DEF ListenCallback, IInv, ServerOK
  <2>2. stub # "deleted" /\ \A s \in Threads : <<s, Release>> \notin BagToSet(pool)
    BY <2>1 DEF Accepted
  <2> QED
    BY <1>1, <2>1, <2>2 DEF Accepted
<1>4. CASE StoreConnfd \/ (\E s \in polled : CallbackFails(s))
  <2>1. edges' = edges /\ polled' \subseteq polled /\ connfd' \in {None, connfd}
    BY <1>4 DEF StoreConnfd, CallbackFails
  <2> QED
    BY <1>1, <2>1, AcceptedKept
<1> QED
  BY <1>2, <1>3, <1>4

(* When RELEASE is read no connection is left to be accepted or stored.    *)
LEMMA ReadAccepted ==
    ASSUME IInv, Accepted, NEW s \in Threads, AcceptCallback(s)
    PROVE  Accepted'
<1>1. PICK m \in Messages : inbox[s] # <<>> /\ m = Head(inbox[s])
  BY DEF AcceptCallback, IInv, WiresOK
<1>2. /\ UNCHANGED <<agent, m_cSocketfd, stub, connfd, edges>>
      /\ inbox' = [inbox EXCEPT ![s] = <<>>] /\ inbox \in [Threads -> Seq(Messages)]
      /\ pool' = pool (+) SetToBag({<<s, m>>}) /\ polled' = polled \ {s}
      /\ connfd = None /\ s \in polled /\ s # Listen
  BY <1>1, Names DEF AcceptCallback, IInv, WiresOK, proxy
<1>3. BagToSet(pool') = BagToSet(pool) \cup {<<s, m>>}
  <2>1. IsABag(pool)
    BY DEF IInv, WiresOK
  <2>2. BagToSet(pool (+) SetToBag({<<s, m>>})) = BagToSet(pool) \cup {<<s, m>>}
    BY <2>1, BagPut
  <2> QED
    BY <1>2, <2>2
<1>4. (Connecting' <=> Connecting) /\ s # None
  BY <1>2, Names DEF Connecting
<1>5. ASSUME stub = "alive", ~Connecting, m_cSocketfd # None
      PROVE  /\ m_cSocketfd \in polled' \/ HeardOf(m_cSocketfd)' => Listen \notin edges
             /\ m_cSocketfd \in polled' /\ HeardOf(m_cSocketfd)' => Listen \notin polled'
  <2>1. CASE m_cSocketfd = s
    BY <1>2, <1>5, <2>1 DEF Accepted
  <2>2. CASE m_cSocketfd # s
    <3>1. m_cSocketfd \in Threads /\ inbox'[m_cSocketfd] = inbox[m_cSocketfd]
      BY <1>2, <1>5, <2>2 DEF IInv, ProxyOK, Sockets
    <3>2. HeardOf(m_cSocketfd)' <=> HeardOf(m_cSocketfd)
      BY <1>2, <3>1 DEF HeardOf
    <3> QED
      BY <1>2, <1>5, <3>2 DEF Accepted
  <2> QED
    BY <2>1, <2>2
<1>6. ASSUME m = Release
      PROVE  Listen \notin edges \cup polled
  <2>1. 1 \in 1 .. Len(inbox[s]) /\ inbox[s][1] = Release
    BY <1>1, <1>2, <1>6
  <2>2. ReleaseIn(s)
    BY <2>1 DEF ReleaseIn
  <2>3. ReleaseSent /\ s = m_cSocketfd
    BY <2>2 DEF IInv, Unreleased
  <2>4. \A t \in Threads : agent[Caller(t)].pc \in {"idle"} \cup Leaving
    BY <2>3 DEF IInv, Left, ReleaseSent, Leaving
  <2>5. ~Connecting /\ HeardOf(s)
    BY <1>1, <1>6, <2>4 DEF Connecting, HeardOf, Leaving
  <2>6. stub \in {"alive", "deleted"}
    BY <1>1 DEF IInv, Connections, ServerOK
  <2> QED
    BY <1>2, <1>4, <2>3, <2>5, <2>6 DEF Accepted
<1>7. ASSUME NEW u \in Threads, <<u, Release>> \in BagToSet(pool')
      PROVE  <<u, Release>> \in BagToSet(pool) \/ m = Release
  BY <1>3, <1>7
<1> QED
  BY <1>2, <1>4, <1>5, <1>6, <1>7 DEF Accepted

(* The tasks, and the end of the stub.                                     *)
LEMMA TasksAccepted ==
    ASSUME IInv, Accepted,
           \/ \E s \in Threads : TransactRelease(s)
           \/ \E task \in BagToSet(pool) : Transact(task[1], task[2])
           \/ Die
    PROVE  Accepted'
<1>1. UNCHANGED <<agent, m_cSocketfd>> /\ (Connecting' <=> Connecting)
  BY DEF TransactRelease, Transact, Die, proxy, Connecting
<1>2. ASSUME NEW s \in Threads, TransactRelease(s)
      PROVE  Accepted'
  <2>1. /\ <<s, Release>> \in BagToSet(pool) /\ stub' = "deleted"
        /\ edges' \subseteq edges /\ polled' = polled /\ connfd' = connfd
    BY <1>2 DEF TransactRelease, BagIn, BagToSet
  <2> QED
    BY <2>1 DEF Accepted
<1>3. ASSUME NEW task \in BagToSet(pool), Transact(task[1], task[2])
      PROVE  Accepted'
  <2>1. UNCHANGED <<stub, connfd, edges, polled, inbox>>
    BY <1>3 DEF Transact
  <2>2. BagToSet(pool') \subseteq BagToSet(pool)
    <3>1. pool' = pool (-) SetToBag({<<task[1], task[2]>>}) /\ IsABag(pool)
      BY <1>3 DEF Transact, IInv, WiresOK
    <3>2. <<task[1], task[2]>> \in BagToSet(pool)
      BY <1>3 DEF Transact, BagIn, BagToSet
    <3>3. BagToSet(pool (-) SetToBag({<<task[1], task[2]>>})) \subseteq BagToSet(pool)
      BY <3>1, <3>2, BagTake
    <3> QED
      BY <3>1, <3>3
  <2>3. \A s : HeardOf(s)' <=> HeardOf(s)
    BY <1>1, <2>1 DEF HeardOf
  <2> QED
    BY <1>1, <2>1, <2>2, <2>3, AcceptedKept
<1>4. CASE Die
  BY <1>4, NoTasks DEF Die, Accepted
<1> QED
  BY <1>2, <1>3, <1>4

(* Nothing is sent, read or connected.                                     *)
LEMMA NothingAccepted ==
    ASSUME Accepted, UNCHANGED <<agent, m_cSocketfd, server, inbox>>
    PROVE  Accepted'
BY DEF Accepted, Connecting, HeardOf, server

(* Every action keeps it.                                                  *)
LEMMA NextAccepted == IInv /\ Accepted /\ [Next]_vars => Accepted'
<1> SUFFICES ASSUME IInv, Accepted, [Next]_vars
             PROVE  Accepted'
  OBVIOUS
<1>1. ASSUME NEW t \in Threads, CallerStep(t)
      PROVE  Accepted'
  <2>1. CASE Connect(t)
    BY <2>1, ConnectAccepted, CallerAccepted
  <2>2. CASE Connected(t)
    BY <2>2, ConnectedAccepted
  <2>3. CASE SendRelease(t)
    BY <2>3, MessagesAccepted
  <2>4. CASE \E r \in Recipients : LinkToDeath(t, r) \/ UnlinkToDeath(t, r)
    BY <2>4, NothingAccepted DEF LinkToDeath, UnlinkToDeath, wires
  <2>5. CASE Call(t) \/ PingTaskStarted(t) \/ SendFails(t) \/ Drop(t) \/ DeleteProxy(t)
    BY <2>5, CallerAccepted
  <2> QED
    BY <1>1, <2>1, <2>2, <2>3, <2>4, <2>5 DEF CallerStep, Begin
<1>2. ASSUME NEW a \in Agents, SendStep(a)
      PROVE  Accepted'
  <2>1. CASE Send(a)
    BY <2>1, MessagesAccepted
  <2>2. CASE BrokenPipe(a)
    BY <2>2, NothingAccepted DEF BrokenPipe, wires
  <2> QED
    BY <1>2, <2>1, <2>2 DEF SendStep
<1>3. ASSUME NEW a \in Agents, Proceed(a) \/ SiguserHandler(a)
      PROVE  Accepted'
  BY <1>3, ProceedAccepted
<1>4. ASSUME NEW t \in Threads, UseFreedProxy(Pinger(t))
      PROVE  Accepted'
  BY <1>4, Names, ProceedAccepted
<1>5. CASE ServerStep
  <2>1. CASE Poll \/ ListenCallback \/ StoreConnfd \/ (\E s \in polled : CallbackFails(s))
    BY <2>1, LooperAccepted
  <2>2. CASE \E s \in Threads : AcceptCallback(s)
    BY <2>2, ReadAccepted
  <2>3. CASE \/ \E s \in Threads : TransactRelease(s)
             \/ \E task \in BagToSet(pool) : Transact(task[1], task[2])
    BY <2>3, TasksAccepted
  <2> QED
    BY <1>5, <2>1, <2>2, <2>3 DEF ServerStep
<1>6. CASE Die
  BY <1>6, TasksAccepted
<1>7. CASE UNCHANGED vars
  BY <1>7, NothingAccepted DEF vars, proxy, wires
<1> QED
  BY <1>1, <1>2, <1>3, <1>4, <1>5, <1>6, <1>7 DEF Next

(* What is deleted is used by mistake in the ways named only: a stub, when *)
(* a caller gave up or a ping went along with RELEASE or after it, and     *)
(* never through ListenCallback's pointer; a proxy, while the signal for   *)
(* its ping task is pending or when the first calls raced.                 *)
THEOREM DeletedIsUnused == Spec => []SafeUnlessLateOrRaced
<1>1. Init => Accepted
  <2> SUFFICES ASSUME Init
               PROVE  Accepted
    OBVIOUS
  <2>1. BagToSet(pool) = {} /\ m_cSocketfd = None /\ stub = "alive"
    BY NoTasks DEF Init
  <2> QED
    BY <2>1 DEF Accepted
<1>2. IInv /\ Accepted => SafeUnlessLateOrRaced
  <2> SUFFICES ASSUME IInv, Accepted
               PROVE  SafeUnlessLateOrRaced
    OBVIOUS
  <2>1. ASSUME stub = "deleted", NEW task \in BagToSet(pool),
               NEW cmd \in {"INVOKE", "PING"}, task[2].cmd = cmd, Timely(cmd)
        PROVE  timedOut # {}
    <3>1. task[1] \in Threads /\ SentIn(task[1], cmd)
      BY <2>1 DEF IInv, WiresOK, SentIn
    <3>2. timedOut = {} => \E a \in Agents : Waits(a) /\ Message(a).cmd = cmd
      BY <2>1, <3>1 DEF IInv, Invoked, Awaited
    <3>3. ReleaseSent
      BY <2>1 DEF IInv, Unreleased
    <3> QED
      BY <2>1, <3>2, <3>3, WaitsInTime
  <2>2. stub = "deleted" => connfd = None
    BY DEF Accepted
  <2>3. ASSUME Gone, NEW t \in Threads, agent[Pinger(t)].pc \notin {"none", "ended"}
        PROVE  Pinger(t) \in signalled \/ \E u \in Threads \ {t} : agent[Pinger(u)].pc # "none"
    <3>1. agent[Caller(t)].pc # "started"
      BY <2>3, LastOne DEF Gone, Leaving
    <3>2. m_pPingTask # None
      BY <2>3, <3>1 DEF IInv, Pinging
    <3>3. PICK u \in Threads : m_pPingTask = Pinger(u)
      BY <3>2 DEF IInv, ProxyOK
    <3>4. agent[Pinger(u)].pc # "none" /\ (agent[Pinger(u)].pc = "ended" \/ Pinger(u) \in signalled)
      BY <2>3, <3>2, <3>3 DEF IInv, Pinging
    <3> QED
      BY <2>3, <3>4
  <2> QED
    BY <2>1, <2>2, <2>3 DEF SafeUnlessLateOrRaced, Timely, Late
<1>3. IInv /\ Accepted /\ [Next]_vars => Accepted'
  BY NextAccepted
<1> QED
  BY <1>1, <1>2, <1>3, Invariance, PTL DEF Spec

(***************************************************************************)
(* ThreadPoolExecutor: the threads of one task, its Worker and its entry   *)
(* in the list.  No step of one task touches another's, so that the        *)
(* invariant is a property of each.                                        *)
(***************************************************************************)

Listed == {"start", "entered", "run", "finished", "removing"}

(* Where RunTask is, and what has been done then.                          *)
Handed(t) ==
    /\ t \in mLock <=> caller[t] \in {"create", "store", "add"}
    /\ caller[t] \in {"idle", "create", "failed"} <=> worker[t] = "none"
    /\ caller[t] \in {"store", "add"} => worker[t] \in {"start", "entered"}
    /\ caller[t] \in {"add", "return", "done"} => t \in mThread
    /\ t \in mWorkers => caller[t] \in {"return", "done"}

(* The count, as in RefsExact.                                             *)
Counted(t) ==
    /\ mRef[t] = One(caller[t] \in {"create", "store", "add", "return"})
                   + One(t \in mWorkers)
                   + One(worker[t] \in Owning \cup {"lost"})
                   + One(stopper[t] \in {"erase", "stuck"})
    /\ t \in deleted <=> caller[t] # "idle" /\ mRef[t] = 0

(* A thread is in the list until StopTask takes it out or it leaves.       *)
Found(t) ==
    /\ t \in mWorkers => worker[t] \in Listed \/ stopper[t] \in {"erase", "self", "stuck"}
    /\ caller[t] \in {"return", "done"} /\ worker[t] \in {"start", "entered", "run"}
         => t \in mWorkers \/ stopper[t] # "idle"
    /\ stopper[t] = "done" => t \notin mWorkers

(* What StopTask has done; a signal is pending only where there is a       *)
(* thread to handle it.                                                    *)
Stopped(t) ==
    /\ stopper[t] # "idle" => t \in Pings /\ caller[t] \in {"done", "failed"}
    /\ stopper[t] \in {"erase", "done"} /\ worker[t] \in {"start", "entered", "run"}
         => t \in signals
    /\ stopper[t] = "self" => worker[t] = "killed"
    /\ stopper[t] = "stuck" => worker[t] = "lost"
    /\ t \in signals => /\ stopper[t] \in {"erase", "done"}
                        /\ worker[t] \in Owning \cup {"start", "wild"}
    /\ worker[t] = "wild" => t \in signals /\ t \in deleted

Proper(t) == Handed(t) /\ Counted(t) /\ Found(t) /\ Stopped(t)

TPIInv == TPTypeOK /\ \A t \in Tasks : Proper(t)

(* A step for task t leaves the others where they are.                     *)
OthersStay(t) == \A u \in Tasks \ {t} :
    /\ mRef'[u] = mRef[u] /\ caller'[u] = caller[u]
    /\ worker'[u] = worker[u] /\ stopper'[u] = stopper[u]
    /\ u \in deleted' <=> u \in deleted
    /\ u \in mThread' <=> u \in mThread
    /\ u \in mLock' <=> u \in mLock
    /\ u \in mWorkers' <=> u \in mWorkers
    /\ u \in signals' <=> u \in signals

LEMMA OneTaskMoves ==
    ASSUME TPIInv, NEW t \in Tasks, OthersStay(t), TPTypeOK', Proper(t)'
    PROVE  TPIInv'
<1>1. ASSUME NEW u \in Tasks \ {t} PROVE Proper(u)'
  <2>1. Handed(u)'
    BY DEF TPIInv, Proper, Handed, OthersStay
  <2>2. Counted(u)'
    BY DEF TPIInv, Proper, Counted, OthersStay
  <2>3. Found(u)'
    BY DEF TPIInv, Proper, Found, OthersStay
  <2>4. Stopped(u)'
    BY DEF TPIInv, Proper, Stopped, OthersStay
  <2> QED
    BY <2>1, <2>2, <2>3, <2>4 DEF Proper
<1> QED
  BY <1>1 DEF TPIInv

(* RunTask makes a Worker with one owner.                                *)
LEMMA RunTaskKeeps ==
    ASSUME TPIInv, NEW t \in Tasks, RunTask(t)
    PROVE  TPIInv'
<1>1. TPTypeOK /\ Handed(t) /\ Counted(t) /\ Found(t) /\ Stopped(t)
  BY DEF TPIInv, Proper
<1>2. OthersStay(t)
  BY <1>1 DEF OthersStay, RunTask, AddRef
<1>3. TPTypeOK'
  BY <1>1 DEF TPTypeOK, CallerAt, RunTask, AddRef
<1>4. Handed(t)'
  BY <1>1 DEF TPTypeOK, Handed, RunTask
<1>5. Counted(t)'
  BY <1>1 DEF TPTypeOK, Counted, One, RunTask, AddRef
<1>6. Found(t)'
  BY <1>1 DEF Found, RunTask
<1>7. Stopped(t)'
  BY <1>1 DEF Stopped, RunTask
<1> QED
  BY <1>2, <1>3, <1>4, <1>5, <1>6, <1>7, OneTaskMoves DEF Proper

(* A thread is made: RunTask still has the lock and a reference.         *)
LEMMA CreateKeeps ==
    ASSUME TPIInv, NEW t \in Tasks, Create(t)
    PROVE  TPIInv'
<1>1. TPTypeOK /\ Handed(t) /\ Counted(t) /\ Found(t) /\ Stopped(t)
  BY DEF TPIInv, Proper
<1>2. OthersStay(t)
  BY <1>1 DEF OthersStay, Create
<1>3. TPTypeOK'
  BY <1>1 DEF TPTypeOK, CallerAt, WorkerAt, Create
<1>4. Handed(t)'
  BY <1>1 DEF TPTypeOK, Handed, Create
<1>5. Counted(t)'
  BY <1>1 DEF Handed, Counted, Owning, Create
<1>6. Found(t)'
  BY <1>1 DEF Found, Listed, Create
<1>7. Stopped(t)'
  BY <1>1 DEF Stopped, Create
<1> QED
  BY <1>2, <1>3, <1>4, <1>5, <1>6, <1>7, OneTaskMoves DEF Proper

(* There is no thread, and the Worker is deleted.                        *)
LEMMA CreateFailsKeeps ==
    ASSUME TPIInv, NEW t \in Tasks, CreateFails(t)
    PROVE  TPIInv'
<1>1. TPTypeOK /\ Handed(t) /\ Counted(t) /\ Found(t) /\ Stopped(t)
  BY DEF TPIInv, Proper
<1>2. OthersStay(t)
  BY <1>1 DEF OthersStay, CreateFails, ReleaseRef
<1>3. TPTypeOK'
  BY <1>1 DEF TPTypeOK, Counted, One, CallerAt, CreateFails, ReleaseRef
<1>4. Handed(t)'
  BY <1>1 DEF TPTypeOK, Handed, CreateFails
<1>5. Counted(t)'
  BY <1>1 DEF TPTypeOK, Counted, One, CreateFails, ReleaseRef
<1>6. Found(t)'
  BY <1>1 DEF Found, CreateFails
<1>7. Stopped(t)'
  BY <1>1 DEF Stopped, CreateFails
<1> QED
  BY <1>2, <1>3, <1>4, <1>5, <1>6, <1>7, OneTaskMoves DEF Proper

(* The Worker knows its thread before RunTask gives the lock back.       *)
LEMMA StoreThreadKeeps ==
    ASSUME TPIInv, NEW t \in Tasks, StoreThread(t)
    PROVE  TPIInv'
<1>1. TPTypeOK /\ Handed(t) /\ Counted(t) /\ Found(t) /\ Stopped(t)
  BY DEF TPIInv, Proper
<1>2. OthersStay(t)
  BY <1>1 DEF OthersStay, StoreThread
<1>3. TPTypeOK'
  BY <1>1 DEF TPTypeOK, CallerAt, StoreThread
<1>4. Handed(t)'
  BY <1>1 DEF Handed, StoreThread
<1>5. Counted(t)'
  BY <1>1 DEF Counted, StoreThread
<1>6. Found(t)'
  BY <1>1 DEF Found, StoreThread
<1>7. Stopped(t)'
  BY <1>1 DEF Stopped, StoreThread
<1> QED
  BY <1>2, <1>3, <1>4, <1>5, <1>6, <1>7, OneTaskMoves DEF Proper

(* The thread cannot have passed the lock yet: it is not at its end.     *)
LEMMA AddWorkerKeeps ==
    ASSUME TPIInv, NEW t \in Tasks, AddWorker(t)
    PROVE  TPIInv'
<1>1. TPTypeOK /\ Handed(t) /\ Counted(t) /\ Found(t) /\ Stopped(t)
  BY DEF TPIInv, Proper
<1>2. OthersStay(t)
  BY <1>1 DEF OthersStay, AddWorker, AddRef
<1>3. TPTypeOK'
  BY <1>1 DEF TPTypeOK, CallerAt, AddWorker, AddRef
<1>4. Handed(t)'
  BY <1>1 DEF TPTypeOK, Handed, AddWorker
<1>5. Counted(t)'
  BY <1>1 DEF TPTypeOK, Handed, Counted, One, AddWorker, AddRef
<1>6. Found(t)'
  BY <1>1 DEF Handed, Found, Stopped, Listed, AddWorker
<1>7. Stopped(t)'
  BY <1>1 DEF Stopped, AddWorker
<1> QED
  BY <1>2, <1>3, <1>4, <1>5, <1>6, <1>7, OneTaskMoves DEF Proper

(* RunTask's reference goes.                                             *)
LEMMA EndRunTaskKeeps ==
    ASSUME TPIInv, NEW t \in Tasks, EndRunTask(t)
    PROVE  TPIInv'
<1>1. TPTypeOK /\ Handed(t) /\ Counted(t) /\ Found(t) /\ Stopped(t)
  BY DEF TPIInv, Proper
<1>2. OthersStay(t)
  BY <1>1 DEF OthersStay, EndRunTask, ReleaseRef
<1>3. TPTypeOK'
  BY <1>1 DEF TPTypeOK, Counted, One, CallerAt, EndRunTask, ReleaseRef
<1>4. Handed(t)'
  BY <1>1 DEF Handed, EndRunTask
<1>5. Counted(t)'
  BY <1>1 DEF TPTypeOK, Counted, One, EndRunTask, ReleaseRef
<1>6. Found(t)'
  BY <1>1 DEF Found, EndRunTask
<1>7. Stopped(t)'
  BY <1>1 DEF Stopped, EndRunTask
<1> QED
  BY <1>2, <1>3, <1>4, <1>5, <1>6, <1>7, OneTaskMoves DEF Proper

(* The thread's reference comes in time unless the task was stopped.     *)
LEMMA EnterKeeps ==
    ASSUME TPIInv, NEW t \in Tasks, Enter(t)
    PROVE  TPIInv'
<1>1. TPTypeOK /\ Handed(t) /\ Counted(t) /\ Found(t) /\ Stopped(t)
  BY DEF TPIInv, Proper
<1>a. t \in deleted =>
        caller[t] = "done" /\ t \notin mWorkers /\ stopper[t] = "done" /\ t \in signals
  BY <1>1 DEF TPTypeOK, CallerAt, StopperAt, Handed, Counted, Found, Stopped, One, Enter
<1>2. OthersStay(t)
  BY <1>1, <1>a DEF TPTypeOK, OthersStay, Enter, AddRef
<1>3. TPTypeOK'
  BY <1>1, <1>a DEF TPTypeOK, WorkerAt, Enter, AddRef
<1>4. Handed(t)'
  BY <1>1, <1>a DEF TPTypeOK, Handed, Enter
<1>5. Counted(t)'
  BY <1>1, <1>a DEF TPTypeOK, Counted, One, Owning, Enter, AddRef
<1>6. Found(t)'
  BY <1>1, <1>a DEF TPTypeOK, Found, Listed, Enter
<1>7. Stopped(t)'
  BY <1>1, <1>a DEF TPTypeOK, Stopped, Owning, Enter
<1> QED
  BY <1>2, <1>3, <1>4, <1>5, <1>6, <1>7, OneTaskMoves DEF Proper

(* The thread gets past the lock: RunTask has stored and added it.       *)
LEMMA CheckThreadKeeps ==
    ASSUME TPIInv, NEW t \in Tasks, CheckThread(t)
    PROVE  TPIInv'
<1>1. TPTypeOK /\ Handed(t) /\ Counted(t) /\ Found(t) /\ Stopped(t)
  BY DEF TPIInv, Proper
<1>2. OthersStay(t)
  BY <1>1 DEF OthersStay, CheckThread
<1>3. TPTypeOK'
  BY <1>1 DEF TPTypeOK, WorkerAt, CheckThread
<1>4. Handed(t)'
  BY <1>1 DEF Handed, CheckThread
<1>5. Counted(t)'
  BY <1>1 DEF Counted, Owning, CheckThread
<1>6. Found(t)'
  BY <1>1 DEF Found, Listed, CheckThread
<1>7. Stopped(t)'
  BY <1>1 DEF Stopped, Owning, CheckThread
<1> QED
  BY <1>2, <1>3, <1>4, <1>5, <1>6, <1>7, OneTaskMoves DEF Proper

(* The task returns.                                                     *)
LEMMA FinishKeeps ==
    ASSUME TPIInv, NEW t \in Tasks, Finish(t)
    PROVE  TPIInv'
<1>1. TPTypeOK /\ Handed(t) /\ Counted(t) /\ Found(t) /\ Stopped(t)
  BY DEF TPIInv, Proper
<1>2. OthersStay(t)
  BY <1>1 DEF OthersStay, Finish
<1>3. TPTypeOK'
  BY <1>1 DEF TPTypeOK, WorkerAt, Finish
<1>4. Handed(t)'
  BY <1>1 DEF Handed, Finish
<1>5. Counted(t)'
  BY <1>1 DEF Counted, Owning, Finish
<1>6. Found(t)'
  BY <1>1 DEF Found, Listed, Finish
<1>7. Stopped(t)'
  BY <1>1 DEF Stopped, Owning, Finish
<1> QED
  BY <1>2, <1>3, <1>4, <1>5, <1>6, <1>7, OneTaskMoves DEF Proper

(* The thread is about to leave the list.                                *)
LEMMA LockMainKeeps ==
    ASSUME TPIInv, NEW t \in Tasks, LockMain(t)
    PROVE  TPIInv'
<1>1. TPTypeOK /\ Handed(t) /\ Counted(t) /\ Found(t) /\ Stopped(t)
  BY DEF TPIInv, Proper
<1>2. OthersStay(t)
  BY <1>1 DEF OthersStay, LockMain
<1>3. TPTypeOK'
  BY <1>1 DEF TPTypeOK, Holders, WorkerAt, LockMain
<1>4. Handed(t)'
  BY <1>1 DEF Handed, LockMain
<1>5. Counted(t)'
  BY <1>1 DEF Counted, Owning, LockMain
<1>6. Found(t)'
  BY <1>1 DEF Found, Listed, LockMain
<1>7. Stopped(t)'
  BY <1>1 DEF Stopped, Owning, LockMain
<1> QED
  BY <1>2, <1>3, <1>4, <1>5, <1>6, <1>7, OneTaskMoves DEF Proper

(* The list's reference goes, if it has one; the thread keeps its own.   *)
LEMMA RemoveWorkerKeeps ==
    ASSUME TPIInv, NEW t \in Tasks, RemoveWorker(t)
    PROVE  TPIInv'
<1>1. TPTypeOK /\ Handed(t) /\ Counted(t) /\ Found(t) /\ Stopped(t)
  BY DEF TPIInv, Proper
<1>2. OthersStay(t)
  BY <1>1 DEF TPTypeOK, OthersStay, RemoveWorker, ReleaseRef
<1>3. TPTypeOK'
  BY <1>1 DEF TPTypeOK, Counted, One, WorkerAt, RemoveWorker, ReleaseRef
<1>4. Handed(t)'
  BY <1>1 DEF Handed, RemoveWorker
<1>5. Counted(t)'
  BY <1>1 DEF TPTypeOK, Counted, One, Owning, RemoveWorker, ReleaseRef
<1>6. Found(t)'
  BY <1>1 DEF Found, RemoveWorker
<1>7. Stopped(t)'
  BY <1>1 DEF Stopped, Owning, RemoveWorker
<1> QED
  BY <1>2, <1>3, <1>4, <1>5, <1>6, <1>7, OneTaskMoves DEF Proper

(* The thread ends, without an entry in the list.                        *)
LEMMA LeaveKeeps ==
    ASSUME TPIInv, NEW t \in Tasks, Leave(t)
    PROVE  TPIInv'
<1>1. TPTypeOK /\ Handed(t) /\ Counted(t) /\ Found(t) /\ Stopped(t)
  BY DEF TPIInv, Proper
<1>a. mRef[t] \in Nat /\ mRef[t] - 1 \in Nat
  BY <1>1 DEF Counted, One, Owning, Leave
<1>2. OthersStay(t)
  BY <1>1, <1>a DEF OthersStay, Leave, ReleaseRef
<1>3. TPTypeOK'
  BY <1>1, <1>a DEF TPTypeOK, WorkerAt, Leave, ReleaseRef
<1>4. Handed(t)'
  BY <1>1, <1>a DEF Handed, Leave
<1>5. Counted(t)'
  BY <1>1, <1>a DEF TPTypeOK, Handed, Counted, One, Owning, Leave, ReleaseRef
<1>6. Found(t)'
  BY <1>1, <1>a DEF Found, Listed, Leave
<1>7. Stopped(t)'
  BY <1>1, <1>a DEF Stopped, Leave
<1> QED
  BY <1>2, <1>3, <1>4, <1>5, <1>6, <1>7, OneTaskMoves DEF Proper

(* Who is in the list has a living thread, which gets the signal.        *)
LEMMA StopTaskKeeps ==
    ASSUME TPIInv, NEW t \in Tasks, StopTask(t)
    PROVE  TPIInv'
<1>1. TPTypeOK /\ Handed(t) /\ Counted(t) /\ Found(t) /\ Stopped(t)
  BY DEF TPIInv, Proper
<1>2. OthersStay(t)
  BY <1>1 DEF TPTypeOK, OthersStay, StopTask, AddRef
<1>3. TPTypeOK'
  BY <1>1 DEF TPTypeOK, Holders, StopperAt, StopTask, AddRef
<1>4. Handed(t)'
  BY <1>1 DEF Handed, StopTask
<1>5. Counted(t)'
  BY <1>1 DEF TPTypeOK, Counted, One, StopTask, AddRef
<1>6. Found(t)'
  BY <1>1 DEF TPTypeOK, Found, StopTask
<1>7. Stopped(t)'
  BY <1>1 DEF TPTypeOK, Handed, Found, Stopped, Owning, Listed, StopTask
<1> QED
  BY <1>2, <1>3, <1>4, <1>5, <1>6, <1>7, OneTaskMoves DEF Proper

(* The references of the list and of StopTask go.                        *)
LEMMA EraseWorkerKeeps ==
    ASSUME TPIInv, NEW t \in Tasks, EraseWorker(t)
    PROVE  TPIInv'
<1>1. TPTypeOK /\ Handed(t) /\ Counted(t) /\ Found(t) /\ Stopped(t)
  BY DEF TPIInv, Proper
<1>2. OthersStay(t)
  BY <1>1 DEF OthersStay, EraseWorker, ReleaseRef
<1>3. TPTypeOK'
  BY <1>1 DEF TPTypeOK, Counted, One, StopperAt, EraseWorker, ReleaseRef
<1>4. Handed(t)'
  BY <1>1 DEF Handed, EraseWorker
<1>5. Counted(t)'
  BY <1>1 DEF TPTypeOK, Counted, Stopped, One, EraseWorker, ReleaseRef
<1>6. Found(t)'
  BY <1>1 DEF Found, EraseWorker
<1>7. Stopped(t)'
  BY <1>1 DEF Stopped, EraseWorker, ReleaseRef
<1> QED
  BY <1>2, <1>3, <1>4, <1>5, <1>6, <1>7, OneTaskMoves DEF Proper

(* The thread ends where it is, and its entry stays.                     *)
LEMMA StopOwnTaskKeeps ==
    ASSUME TPIInv, NEW t \in Tasks, StopOwnTask(t)
    PROVE  TPIInv'
<1>1. TPTypeOK /\ Handed(t) /\ Counted(t) /\ Found(t) /\ Stopped(t)
  BY DEF TPIInv, Proper
<1>2. OthersStay(t)
  BY <1>1 DEF TPTypeOK, OthersStay, StopOwnTask, AddRef, ReleaseRef
<1>3. TPTypeOK'
  BY <1>1 DEF TPTypeOK, Counted, One, Holders, WorkerAt, StopperAt, StopOwnTask, AddRef,
              ReleaseRef
<1>4. Handed(t)'
  BY <1>1 DEF TPTypeOK, Handed, StopOwnTask
<1>5. Counted(t)'
  BY <1>1 DEF TPTypeOK, Counted, One, Owning, StopOwnTask, AddRef, ReleaseRef
<1>6. Found(t)'
  BY <1>1 DEF TPTypeOK, Found, StopOwnTask
<1>7. Stopped(t)'
  BY <1>1 DEF TPTypeOK, Stopped, StopOwnTask
<1> QED
  BY <1>2, <1>3, <1>4, <1>5, <1>6, <1>7, OneTaskMoves DEF Proper

(* The thread ends with or without its reference; the signal is gone.    *)
LEMMA KilledKeeps ==
    ASSUME TPIInv, NEW t \in Tasks, Killed(t)
    PROVE  TPIInv'
<1>1. TPTypeOK /\ Handed(t) /\ Counted(t) /\ Found(t) /\ Stopped(t)
  BY DEF TPIInv, Proper
<1>2. OthersStay(t)
  BY <1>1 DEF TPTypeOK, OthersStay, Killed, ReleaseRef
<1>3. TPTypeOK'
  BY <1>1 DEF TPTypeOK, Counted, One, WorkerAt, Killed, ReleaseRef
<1>4. Handed(t)'
  BY <1>1 DEF TPTypeOK, Handed, Stopped, Owning, Killed
<1>5. Counted(t)'
  BY <1>1 DEF TPTypeOK, Counted, Stopped, One, Owning, Killed, ReleaseRef
<1>6. Found(t)'
  BY <1>1 DEF Found, Stopped, Killed
<1>7. Stopped(t)'
  BY <1>1 DEF TPTypeOK, Stopped, Killed
<1> QED
  BY <1>2, <1>3, <1>4, <1>5, <1>6, <1>7, OneTaskMoves DEF Proper
(* The inductive invariant: where the threads of one task are tells how    *)
(* many references its Worker has, whether it is in the list, and whether  *)
(* its end has been ordered.                                               *)
THEOREM TPInvariance == TPSpec => []TPIInv
<1>1. TPInit => TPIInv
  BY DEF TPInit, TPIInv, TPTypeOK, Proper, Handed, Counted, Found, Stopped, One, Owning,
         CallerAt, WorkerAt, StopperAt
<1>2. TPIInv /\ [TPNext]_tpVars => TPIInv'
  <2> SUFFICES ASSUME TPIInv, [TPNext]_tpVars
               PROVE  TPIInv'
    OBVIOUS
  <2>1. CASE UNCHANGED tpVars
    BY <2>1 DEF tpVars, TPIInv, TPTypeOK, Proper, Handed, Counted, Found, Stopped
  <2>2. CASE TPNext
    <3>1. PICK t \in Tasks :
            \/ RunTask(t) \/ RunStep(t)
            \/ ThreadStep(t) \/ Finish(t)
            \/ StopTask(t) \/ EraseWorker(t) \/ StopOwnTask(t) \/ Killed(t)
      BY <2>2 DEF TPNext
    <3>2. CASE RunTask(t) \/ RunStep(t)
      BY <3>2, RunTaskKeeps, CreateKeeps, CreateFailsKeeps, StoreThreadKeeps,
         AddWorkerKeeps, EndRunTaskKeeps DEF RunStep
    <3>3. CASE ThreadStep(t) \/ Finish(t)
      BY <3>3, EnterKeeps, CheckThreadKeeps, FinishKeeps, LockMainKeeps,
         RemoveWorkerKeeps, LeaveKeeps DEF ThreadStep
    <3>4. CASE StopTask(t) \/ EraseWorker(t) \/ StopOwnTask(t) \/ Killed(t)
      BY <3>4, StopTaskKeeps, EraseWorkerKeeps, StopOwnTaskKeeps, KilledKeeps
    <3> QED
      BY <3>1, <3>2, <3>3, <3>4
  <2> QED
    BY <2>1, <2>2
<1> QED
  BY <1>1, <1>2, PTL DEF TPSpec

(* The types, in particular that no count becomes negative.                *)
THEOREM TPTypeCorrect == TPSpec => []TPTypeOK
<1>1. TPIInv => TPTypeOK
  BY DEF TPIInv
<1> QED
  BY <1>1, TPInvariance, PTL

(* The count of a Worker is the number of its owners, however its thread   *)
(* ends, and the Worker is deleted with its last one.                      *)
THEOREM CountsAreExact == TPSpec => []RefsExact
<1>1. TPIInv => RefsExact
  BY DEF TPIInv, Proper, Counted, RefsExact
<1> QED
  BY <1>1, TPInvariance, PTL

(* No task runs before its Worker knows its thread: ThreadEntry's          *)
(* assertion.                                                              *)
THEOREM AssertionHolds == TPSpec => []ThreadKnown
<1>1. TPIInv => ThreadKnown
  BY DEF TPIInv, TPTypeOK, CallerAt, Proper, Handed, ThreadKnown
<1> QED
  BY <1>1, TPInvariance, PTL

(* StopTask signals no thread that has ended or whose identity it does not *)
(* have.                                                                   *)
THEOREM OnlyTheLivingAreListed == TPSpec => []ListedLives
<1>1. TPIInv => ListedLives
  BY DEF TPIInv, TPTypeOK, Proper, Handed, Found, Listed, ListedLives
<1> QED
  BY <1>1, TPInvariance, PTL

(* A Worker or a proxy that is deleted is used only by a thread that has   *)
(* been sent the signal and has not yet handled it.                        *)
THEOREM UseIsOutlived == TPSpec => []SafeUnlessSignalled
<1>1. ASSUME TPIInv, NEW t \in Tasks, Dangling(t)
      PROVE  t \in signals
  <2>1. TPTypeOK /\ Handed(t) /\ Counted(t) /\ Found(t) /\ Stopped(t)
    BY <1>1 DEF TPIInv, Proper
  <2>2. CASE t \in deleted /\ worker[t] \notin {"none", "ended", "killed"}
    <3>1. /\ caller[t] \notin {"create", "store", "add", "return"}
          /\ t \notin mWorkers /\ stopper[t] \notin {"erase", "stuck"}
          /\ worker[t] \notin Owning \cup {"lost"}
      BY <2>1, <2>2 DEF Counted, One
    <3>2. worker[t] = "start" \/ worker[t] = "wild"
      BY <2>1, <2>2, <3>1 DEF TPTypeOK, WorkerAt, Owning
    <3>3. CASE worker[t] = "wild"
      BY <2>1, <3>3 DEF Stopped
    <3>4. CASE worker[t] = "start"
      <4>1. caller[t] = "done"
        BY <2>1, <3>1, <3>4 DEF TPTypeOK, CallerAt, Handed
      <4>2. stopper[t] = "done"
        BY <2>1, <3>1, <3>4, <4>1 DEF TPTypeOK, StopperAt, Found, Stopped
      <4> QED
        BY <2>1, <3>4, <4>2 DEF Stopped
    <3> QED
      BY <3>2, <3>3, <3>4
  <2>3. CASE stopper[t] = "done" /\ worker[t] \in {"start", "entered", "run"}
    BY <2>1, <2>3 DEF Stopped
  <2> QED
    BY <1>1, <2>2, <2>3 DEF Dangling
<1> QED
  <2>1. TPIInv => SafeUnlessSignalled
    BY <1>1 DEF SafeUnlessSignalled
  <2> QED
    BY <2>1, TPInvariance, PTL
=============================================================================
