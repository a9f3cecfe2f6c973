--------------------------- MODULE BullyElection ---------------------------
(***************************************************************************)
(* The PedidosRust servers choosing their leader: how a server joins the   *)
(* others, how they notice that one is gone, and the bully election.       *)
(*                                                                         *)
(* A server is a ConnectionManager actor and, for each other server it is  *)
(* connected to, a ServerPeer actor.  Every actor has a FIFO mailbox       *)
(* (mailbox[s], inbox[s, p]); the lines s has sent to p and p has not read *)
(* are in wire[s, p].  A ServerPeer turns some of the lines it reads into  *)
(* notes to itself and hands the others, and the end of the stream, to the *)
(* manager at once, so that a line can be overtaken by a later one.        *)
(*                                                                         *)
(* Left out: the replicated data, and ElectionOk, which nobody acts on.    *)
(* Servers start one at a time, and a killed one starts again only when    *)
(* the others have noticed that it was gone.                               *)
(*                                                                         *)
(* An operator X_Y next to X is a faulty X: the README says which property *)
(* each of them breaks.  No specification uses them.                       *)
(***************************************************************************)
EXTENDS Naturals, Sequences, FiniteSets

CONSTANTS Servers,      \* the ids of the configured servers
          MaxStarts,    \* bound: times each server is started
          MaxCrashes,   \* bound: servers killed
          Patient,      \* the two seconds of a ServerPeer's timer, and the
                        \* person who starts a server, are slower than any
                        \* exchange of messages
          None

ASSUME ElectionAssumption ==
    /\ Servers \subseteq Nat /\ None \notin Servers
    /\ MaxStarts \in Nat /\ MaxCrashes \in Nat /\ Patient \in BOOLEAN

VARIABLES
    state,                  \* of each server: "down", "joining", "serving"
    joining,                \* the servers it has still to connect to
    (* the ConnectionManager of each server *)
    mailbox, server_peers, leader, election_in_progress,
    (* the ServerPeer of each server for each other one *)
    actor,                  \* "none", "reading", "finished" (its stream ended)
    inbox,
    timer,                  \* GotLeaderOrCallElection is still to come
    wire,
    announced,              \* the leader the clients were told of last
    starts, crashes         \* to bound the runs

managerVars == <<server_peers, leader, election_in_progress>>
peerVars    == <<actor, inbox, timer, wire>>
bounds      == <<starts, crashes>>
vars == <<state, joining, mailbox, managerVars, peerVars, announced, bounds>>

Pairs == Servers \X Servers

Message == [type : {"RegisterPeerServer", "PeerDisconnected", "GetLeaderInfo",
                    "GotLeaderFromPeer", "ElectionCoordinatorReceived"},
            id : Servers]
           \cup [type : {"LeaderQuery", "InitLeader", "ElectionCall",
                         "NotifyAllClientsIAmLeader"}]

Line == [type : {"ElectionCall", "ElectionCoordinator", "LeaderQuery"}]
        \cup [type : {"LeaderData"}, leader : Servers]

Command == {"Start", "Stop", "LeaderQuery", "SendLeader",
            "GotLeaderOrCallElection", "ElectionCall", "ElectionCallReceived",
            "ElectionCoordinator", "ElectionCoordinatorReceived"}

Live == {s \in Servers : state[s] # "down"}

(* The manager of s sends one command to the ServerPeers of the set ps.    *)
Commanded(s, ps, command) ==
    [q \in Pairs |-> IF q[1] = s /\ q[2] \in ps
                     THEN Append(inbox[q], command) ELSE inbox[q]]

(* What s writes to a dead server is lost.                                 *)
Written(s, p, line) ==
    IF state[p] = "down" THEN wire
                         ELSE [wire EXCEPT ![<<s, p>>] = Append(@, line)]

(* Nothing is under way.                                                   *)
Quiet == /\ \A s \in Servers : mailbox[s] = <<>>
         /\ \A q \in Pairs : inbox[q] = <<>> /\ wire[q] = <<>>
         /\ \A q \in Pairs : actor[q] = "reading" => state[q[2]] # "down"

Told(s, ms) == mailbox' = [mailbox EXCEPT ![s] = @ \o ms]

----------------------------------------------------------------------------
Init ==
    /\ state = [s \in Servers |-> "down"]
    /\ joining = [s \in Servers |-> {}]
    /\ mailbox = [s \in Servers |-> <<>>]
    /\ server_peers = [s \in Servers |-> {}]
    /\ leader = [s \in Servers |-> None]
    /\ election_in_progress = [s \in Servers |-> FALSE]
    /\ actor = [q \in Pairs |-> "none"]
    /\ inbox = [q \in Pairs |-> <<>>]
    /\ timer = [q \in Pairs |-> FALSE]
    /\ wire = [q \in Pairs |-> <<>>]
    /\ announced = None
    /\ starts = [s \in Servers |-> 0]
    /\ crashes = 0

(* The servers were all started, the leader first, and the timers are over.*)
Established ==
    /\ state = [s \in Servers |-> "serving"]
    /\ joining = [s \in Servers |-> {}]
    /\ mailbox = [s \in Servers |-> <<>>]
    /\ server_peers = [s \in Servers |-> Servers \ {s}]
    /\ \E l \in Servers : leader = [s \in Servers |-> l] /\ announced = l
    /\ election_in_progress = [s \in Servers |-> FALSE]
    /\ actor = [q \in Pairs |-> IF q[1] = q[2] THEN "none" ELSE "reading"]
    /\ inbox = [q \in Pairs |-> <<>>]
    /\ timer = [q \in Pairs |-> FALSE]
    /\ wire = [q \in Pairs |-> <<>>]
    /\ starts = [s \in Servers |-> 1]
    /\ crashes = 0

----------------------------------------------------------------------------
(* Processes.                                                              *)

Start(s) ==
    /\ state[s] = "down"
    /\ starts[s] < MaxStarts
    /\ \A t \in Servers : state[t] # "joining" /\ actor[<<t, s>>] = "none"
    /\ Patient => Quiet
    /\ state' = [state EXCEPT ![s] = "joining"]
    /\ joining' = [joining EXCEPT ![s] = Servers \ {s}]
    /\ starts' = [starts EXCEPT ![s] = @ + 1]
    /\ UNCHANGED <<mailbox, managerVars, peerVars, announced, crashes>>

(* The server tries the others in the order of the configuration; a        *)
(* connection makes a ServerPeer at each of its ends.                      *)
ConnectServerPeer(s) ==
    /\ \E p \in joining[s] :
          /\ \A q \in joining[s] : p <= q
          /\ joining' = [joining EXCEPT ![s] = @ \ {p}]
          /\ LET ends == {<<s, p>>, <<p, s>>}
             IN  IF state[p] = "serving"
                 THEN /\ actor' = [q \in Pairs |->
                             IF q \in ends THEN "reading" ELSE actor[q]]
                      /\ inbox' = [q \in Pairs |->
                             IF q \in ends THEN <<"Start">> ELSE inbox[q]]
                      /\ mailbox' = [mailbox EXCEPT
                             ![s] = Append(@, [type |-> "RegisterPeerServer",
                                               id |-> p]),
                             ![p] = Append(@, [type |-> "RegisterPeerServer",
                                               id |-> s])]
                 ELSE UNCHANGED <<actor, inbox, mailbox>>
    /\ UNCHANGED <<state, managerVars, timer, wire, announced, bounds>>

Serve(s) ==
    /\ state[s] = "joining" /\ joining[s] = {}
    /\ state' = [state EXCEPT ![s] = "serving"]
    /\ Told(s, <<[type |-> "InitLeader"]>>)
    /\ UNCHANGED <<joining, managerVars, peerVars, announced, bounds>>

(* The process is killed.  Of the lines it was sending, those that were    *)
(* still in its TcpSender die with it.                                     *)
Crash(s) ==
    /\ state[s] # "down"
    /\ crashes < MaxCrashes
    /\ crashes' = crashes + 1
    /\ state' = [state EXCEPT ![s] = "down"]
    /\ joining' = [joining EXCEPT ![s] = {}]
    /\ mailbox' = [mailbox EXCEPT ![s] = <<>>]
    /\ server_peers' = [server_peers EXCEPT ![s] = {}]
    /\ leader' = [leader EXCEPT ![s] = None]
    /\ election_in_progress' = [election_in_progress EXCEPT ![s] = FALSE]
    /\ actor' = [q \in Pairs |-> IF q[1] = s THEN "none" ELSE actor[q]]
    /\ inbox' = [q \in Pairs |-> IF q[1] = s THEN <<>> ELSE inbox[q]]
    /\ timer' = [q \in Pairs |-> q[1] # s /\ timer[q]]
    /\ \E sent \in [Servers ->
                     UNION {0 .. Len(wire[<<s, p>>]) : p \in Servers}] :
          /\ \A p \in Servers : sent[p] <= Len(wire[<<s, p>>])
          /\ wire' = [q \in Pairs |->
                 IF q[2] = s THEN <<>>
                 ELSE IF q[1] = s THEN SubSeq(wire[q], 1, sent[q[2]])
                 ELSE wire[q]]
    /\ UNCHANGED <<announced, starts>>

----------------------------------------------------------------------------
(* The ServerPeer of s for p.                                              *)

NoteOf(line) ==
    CASE line.type = "ElectionCall"        -> "ElectionCallReceived"
      [] line.type = "ElectionCoordinator" -> "ElectionCoordinatorReceived"
      [] line.type = "LeaderQuery"         -> "SendLeader"

(* The one sequence that lists the set of numbers I in their order.        *)
Listings(I) == {at \in [1 .. Cardinality(I) -> I] :
                   \A i, j \in 1 .. Cardinality(I) : i < j => at[i] < at[j]}

(* It reads its stream when its mailbox is empty: as many lines as have    *)
(* come, and the end of the stream if that is next.                        *)
DispatchMessages(s, p) ==
    /\ actor[<<s, p>>] = "reading"
    /\ inbox[<<s, p>>] = <<>>
    /\ \E n \in 0 .. Len(wire[<<p, s>>]), finished \in BOOLEAN :
         LET line == wire[<<p, s>>]
             areData == {i \in 1 .. n : line[i].type = "LeaderData"}
         IN  /\ n > 0 \/ finished
             /\ finished => state[p] = "down" /\ n = Len(line)
             /\ wire' = [wire EXCEPT ![<<p, s>>] = SubSeq(@, n + 1, Len(@))]
             /\ \E other \in Listings(1 .. n \ areData) :
                   inbox' = [inbox EXCEPT ![<<s, p>>] =
                       [i \in DOMAIN other |-> NoteOf(line[other[i]])]]
             /\ \E data \in Listings(areData) :
                   Told(s, [i \in DOMAIN data |->
                               [type |-> "GotLeaderFromPeer",
                                id |-> line[data[i]].leader]]
                           \o (IF finished
                               THEN <<[type |-> "PeerDisconnected",
                                       id |-> p]>>
                               ELSE <<>>))
             /\ actor' = IF finished
                          THEN [actor EXCEPT ![<<s, p>>] = "finished"]
                          ELSE actor
    /\ UNCHANGED <<state, joining, managerVars, timer, announced, bounds>>

NextIs(s, p, command) == /\ inbox[<<s, p>>] # <<>>
                         /\ Head(inbox[<<s, p>>]) = command

Handled(s, p) == inbox' = [inbox EXCEPT ![<<s, p>>] = Tail(@)]

processVars == <<state, joining, bounds>>

StartPeer(s, p) ==
    /\ NextIs(s, p, "Start")
    /\ Handled(s, p)
    /\ Told(s, <<[type |-> "LeaderQuery"]>>)
    /\ timer' = [timer EXCEPT ![<<s, p>>] = TRUE]
    /\ UNCHANGED <<processVars, managerVars, actor, wire, announced>>

GotLeaderTimer(s, p) ==
    /\ timer[<<s, p>>]
    /\ Patient => Quiet
    /\ timer' = [timer EXCEPT ![<<s, p>>] = FALSE]
    /\ inbox' = Commanded(s, {p}, "GotLeaderOrCallElection")
    /\ UNCHANGED <<processVars, mailbox, managerVars, actor, wire, announced>>

(* A command that goes out as a line.                                      *)
SendLine(s, p) ==
    \E command \in {"LeaderQuery", "ElectionCall", "ElectionCoordinator"} :
        /\ NextIs(s, p, command)
        /\ Handled(s, p)
        /\ wire' = Written(s, p, [type |-> command])
        /\ UNCHANGED <<processVars, mailbox, managerVars, actor, timer,
                       announced>>

ElectionCallReceived(s, p) ==
    /\ NextIs(s, p, "ElectionCallReceived")
    /\ Handled(s, p)
    /\ Told(s, <<[type |-> "ElectionCall"]>>)
    /\ UNCHANGED <<processVars, managerVars, actor, timer, wire, announced>>

ElectionCoordinatorReceived(s, p) ==
    /\ NextIs(s, p, "ElectionCoordinatorReceived")
    /\ Handled(s, p)
    /\ Told(s, <<[type |-> "ElectionCoordinatorReceived", id |-> p]>>)
    /\ UNCHANGED <<processVars, managerVars, actor, timer, wire, announced>>

Asking(s, p) == [type |-> "GetLeaderInfo", id |-> p]

(* SendLeader and GotLeaderOrCallElection ask the manager who the leader   *)
(* is, and the ServerPeer does nothing else until it is answered: the      *)
(* command stays at the head of its mailbox.                               *)
AskLeader(s, p) ==
    /\ NextIs(s, p, "SendLeader") \/ NextIs(s, p, "GotLeaderOrCallElection")
    /\ \A i \in 1 .. Len(mailbox[s]) : mailbox[s][i] # Asking(s, p)
    /\ Told(s, <<Asking(s, p)>>)
    /\ UNCHANGED <<processVars, managerVars, peerVars, announced>>

StopPeer(s, p) ==
    /\ NextIs(s, p, "Stop")
    /\ inbox' = [inbox EXCEPT ![<<s, p>>] = <<>>]
    /\ actor' = [actor EXCEPT ![<<s, p>>] = "none"]
    /\ timer' = [timer EXCEPT ![<<s, p>>] = FALSE]
    /\ UNCHANGED <<processVars, mailbox, managerVars, wire, announced>>

HandleCommand(s, p) ==
    \/ StartPeer(s, p)            \/ SendLine(s, p)
    \/ ElectionCallReceived(s, p) \/ ElectionCoordinatorReceived(s, p)
    \/ AskLeader(s, p)            \/ StopPeer(s, p)

----------------------------------------------------------------------------
(* The ConnectionManager of s.                                             *)

Received(s, t) == mailbox[s] # <<>> /\ Head(mailbox[s]).type = t

Done(s, ms) == mailbox' = [mailbox EXCEPT ![s] = Tail(@) \o ms]

RegisterPeerServer(s) ==
    /\ Received(s, "RegisterPeerServer")
    /\ server_peers' =
           [server_peers EXCEPT ![s] = @ \cup {Head(mailbox[s]).id}]
    /\ Done(s, <<>>)
    /\ UNCHANGED <<processVars, leader, election_in_progress, peerVars,
                   announced>>

LeaderQuery(s) ==
    /\ Received(s, "LeaderQuery")
    /\ inbox' = Commanded(s, server_peers[s], "LeaderQuery")
    /\ Done(s, <<>>)
    /\ UNCHANGED <<processVars, managerVars, actor, timer, wire, announced>>

Alone_Ignored(s) == TRUE

Alone_Inverted(s) == server_peers[s] = Servers \ {s}

Alone(s) == server_peers[s] = {}

InitLeader(s) ==
    /\ Received(s, "InitLeader")
    /\ leader' = IF Alone(s) THEN [leader EXCEPT ![s] = s]
                             ELSE leader
    /\ Done(s, <<>>)
    /\ UNCHANGED <<processVars, server_peers, election_in_progress, peerVars,
                   announced>>

WasLeader_Anyone(s, p) == TRUE

WasLeader_LastPeer(s, p) == leader[s] = p /\ server_peers[s] = {p}

WasLeader(s, p) == leader[s] = p

(* The loss of the leader is followed by an election, or, when nobody is   *)
(* left, by taking over.  The lost leader stays the recorded one so far.   *)
PeerDisconnected(s) ==
    /\ Received(s, "PeerDisconnected")
    /\ LET p == Head(mailbox[s]).id
           left == server_peers[s] \ {p}
       IN  /\ server_peers' = [server_peers EXCEPT ![s] = left]
           /\ inbox' = Commanded(s, {p} \cap server_peers[s], "Stop")
           /\ Done(s, IF ~WasLeader(s, p) THEN <<>>
                      ELSE IF left = {}
                      THEN <<[type |-> "InitLeader"],
                             [type |-> "NotifyAllClientsIAmLeader"]>>
                      ELSE <<[type |-> "ElectionCall"]>>)
    /\ UNCHANGED <<processVars, leader, election_in_progress, actor, timer,
                   wire, announced>>

GotLeader_PortAsId(s) ==
    /\ \/ Received(s, "GotLeaderFromPeer")
       \/ Received(s, "ElectionCoordinatorReceived")
    /\ leader' = [leader EXCEPT ![s] = 7500 + Head(mailbox[s]).id]
    /\ election_in_progress' = [election_in_progress EXCEPT ![s] = FALSE]
    /\ Done(s, <<>>)
    /\ UNCHANGED <<processVars, server_peers, peerVars, announced>>

(* The leader is known, from a peer that was asked or from itself.         *)
GotLeader(s) ==
    /\ \/ Received(s, "GotLeaderFromPeer")
       \/ Received(s, "ElectionCoordinatorReceived")
    /\ leader' = [leader EXCEPT ![s] = Head(mailbox[s]).id]
    /\ election_in_progress' = [election_in_progress EXCEPT ![s] = FALSE]
    /\ Done(s, <<>>)
    /\ UNCHANGED <<processVars, server_peers, peerVars, announced>>

Higher_NextOnly(s) == {p \in server_peers[s] : p = s + 1}

Higher_Reversed(s) == {p \in server_peers[s] : p < s}

Higher(s) == {p \in server_peers[s] : p > s}

(* Peers with a higher id are called; if there is none, s is the leader.   *)
ElectionCall(s) ==
    /\ Received(s, "ElectionCall")
    /\ LET higher == Higher(s)
       IN  CASE election_in_progress[s] ->
                   /\ Done(s, <<>>)
                   /\ UNCHANGED <<leader, election_in_progress, inbox>>
             [] ~election_in_progress[s] /\ higher # {} ->
                   /\ Done(s, <<>>)
                   /\ inbox' = Commanded(s, higher, "ElectionCall")
                   /\ election_in_progress' =
                          [election_in_progress EXCEPT ![s] = TRUE]
                   /\ UNCHANGED leader
             [] ~election_in_progress[s] /\ higher = {} ->
                   /\ Done(s, <<[type |-> "NotifyAllClientsIAmLeader"]>>)
                   /\ inbox' = Commanded(s, server_peers[s],
                                         "ElectionCoordinator")
                   /\ leader' = [leader EXCEPT ![s] = s]
                   /\ UNCHANGED election_in_progress
    /\ UNCHANGED <<processVars, server_peers, actor, timer, wire, announced>>

NotifyAllClientsIAmLeader_IfElecting(s) ==
    /\ Received(s, "NotifyAllClientsIAmLeader")
    /\ announced' = IF election_in_progress[s] THEN s ELSE announced
    /\ Done(s, <<>>)
    /\ UNCHANGED <<processVars, managerVars, peerVars>>

NotifyAllClientsIAmLeader(s) ==
    /\ Received(s, "NotifyAllClientsIAmLeader")
    /\ announced' = s
    /\ Done(s, <<>>)
    /\ UNCHANGED <<processVars, managerVars, peerVars>>

(* The answer wakes the ServerPeer that asked, and it finishes the command *)
(* it had begun: it sends LeaderData, or calls for an election.            *)
GetLeaderInfo(s) ==
    /\ Received(s, "GetLeaderInfo")
    /\ LET p == Head(mailbox[s]).id
           query == NextIs(s, p, "SendLeader")
       IN  /\ inbox' = [inbox EXCEPT ![<<s, p>>] =
                  IF ~query /\ leader[s] = None
                  THEN Append(Tail(@), "ElectionCall") ELSE Tail(@)]
           /\ wire' = IF query /\ leader[s] # None
                      THEN Written(s, p, [type |-> "LeaderData",
                                          leader |-> leader[s]])
                      ELSE wire
    /\ Done(s, <<>>)
    /\ UNCHANGED <<processVars, managerVars, actor, timer, announced>>

Handle(s) ==
    \/ RegisterPeerServer(s) \/ LeaderQuery(s)   \/ InitLeader(s)
    \/ PeerDisconnected(s)   \/ GotLeader(s)     \/ ElectionCall(s)
    \/ GetLeaderInfo(s)      \/ NotifyAllClientsIAmLeader(s)

Next ==
    \/ \E s \in Servers : \/ Start(s) \/ ConnectServerPeer(s) \/ Serve(s)
                          \/ Crash(s) \/ Handle(s)
    \/ \E s, p \in Servers : \/ DispatchMessages(s, p) \/ HandleCommand(s, p)
                             \/ GotLeaderTimer(s, p)

Spec == Init /\ [][Next]_vars

(* Every actor goes on, and every timer ends.  Nothing is assumed of who   *)
(* starts servers or kills them.                                           *)
Fairness ==
    /\ \A s \in Servers : /\ WF_vars(ConnectServerPeer(s) \/ Serve(s))
                          /\ WF_vars(Handle(s))
    /\ \A s, p \in Servers : /\ WF_vars(DispatchMessages(s, p))
                             /\ WF_vars(HandleCommand(s, p))
                             /\ WF_vars(GotLeaderTimer(s, p))

FairSpec == Spec /\ Fairness

EstablishedSpec     == Established /\ [][Next]_vars
EstablishedFairSpec == EstablishedSpec /\ Fairness

----------------------------------------------------------------------------
TypeOK ==
    /\ state \in [Servers -> {"down", "joining", "serving"}]
    /\ joining \in [Servers -> SUBSET Servers]
    /\ mailbox \in [Servers -> Seq(Message)]
    /\ server_peers \in [Servers -> SUBSET Servers]
    /\ leader \in [Servers -> Servers \cup {None}]
    /\ election_in_progress \in [Servers -> BOOLEAN]
    /\ actor \in [Pairs -> {"none", "reading", "finished"}]
    /\ inbox \in [Pairs -> Seq(Command)]
    /\ timer \in [Pairs -> BOOLEAN]
    /\ wire \in [Pairs -> Seq(Line)]
    /\ announced \in Servers \cup {None}
    /\ starts \in [Servers -> Nat]
    /\ crashes \in Nat

----------------------------------------------------------------------------
(* Two live servers never both take themselves for the leader: only the    *)
(* leader lets clients in.                                                 *)
AtMostOneLeader ==
    \A s, t \in Live : leader[s] = s /\ leader[t] = t => s = t

(* The bully rule: who takes over knows that every higher server is gone.  *)
HighestTakesOver ==
    [][\A s \in Servers : leader[s] # s /\ leader'[s] = s =>
            \A t \in Servers : t > s => state[t] = "down"]_vars

(* When only one server has crashed, nobody turns away from a leader that  *)
(* is alive.                                                               *)
LiveLeaderStays ==
    [][\A s \in Live : leader[s] \in Live /\ state'[s] # "down" /\ crashes <= 1
            => leader'[s] = leader[s]]_vars

Agreed == \E l \in Live : \A s \in Live : leader[s] = l

(* After one crash the others end up following one of them, unless one of  *)
(* them waits for ever for the outcome of an election it has called:       *)
(* nothing else can go wrong.                                              *)
OnlyOpenElectionsStall ==
    <>[](crashes > 1 \/ Agreed \/ \E s \in Live : election_in_progress[s])

(* The clients hear of a new leader: a server that leads for good is the   *)
(* last one that announced itself.                                         *)
ClientsAreTold == <>[](\A s \in Live : leader[s] = s => announced = s)

(* As long as nobody crashes, a server that joins learns who the leader is,*)
(* and the first one becomes it, though nobody tells it to.                *)
JoinersLearnLeader == <>[](crashes > 0 \/ Live = {} \/ Agreed)

----------------------------------------------------------------------------
(* What the documents say and the code does not do.                        *)

(* README: when the coordinator is gone the replicas hold an election to   *)
(* decide the next one.  So in the end the live servers follow a live one. *)
LeaderIsReplaced == <>[](Live = {} \/ Agreed)

=============================================================================
