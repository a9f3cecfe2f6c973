------------------------- MODULE ClientReconnection -------------------------
(***************************************************************************)
(* How a client (customer, rider, restaurant or payment system) finds the  *)
(* server that leads, and finds the next one when that is lost.  When it   *)
(* starts, its TcpConnector probes the servers over UDP, in the order of   *)
(* the configuration and MAX_CONNECTION_PASSES times, until one says that  *)
(* it leads or which one does.  Once it runs, its UdpGateway waits for the *)
(* ReconnectionMandate of a new leader, and each mandate starts an attempt *)
(* to connect to its sender.  The attempt probes over the socket that the  *)
(* gateway reads, so that either of them may take a datagram.              *)
(*                                                                         *)
(* Left out: what the client says over its connection (OrderFlow), how the *)
(* tables reach the new leader (DataRing) and how it is elected            *)
(* (BullyElection): here the highest server takes over, and may announce   *)
(* itself once more when it is called to a second election.                *)
(*                                                                         *)
(* An operator X_Y next to X is a faulty X: the README says which property *)
(* each of them breaks.  No specification uses them.                       *)
(***************************************************************************)
EXTENDS Naturals, Sequences, SequencesExt

CONSTANTS Servers,       \* the ids of the servers
          Configuration, \* the servers in the order of the configuration
          MaxPasses,     \* MAX_CONNECTION_PASSES
          MaxMandates,   \* bound: mandates sent to the client
          MaxCrashes,    \* bound: servers killed
          MaxDisturbances,  \* bound: servers started again and timeouts
                            \* with an answer on its way, together
          None

ASSUME ReconnectionAssumption ==
    /\ Servers \subseteq Nat /\ Servers # {}
    /\ Configuration \in Seq(Servers)
    /\ \A s \in Servers : \E k \in DOMAIN Configuration : Configuration[k] = s
    /\ MaxPasses \in Nat \ {0}
    /\ MaxMandates \in Nat /\ MaxCrashes \in Nat
    /\ MaxDisturbances \in Nat
    /\ None \notin Servers

Mandates == 1 .. MaxMandates
Attempts == Mandates \cup {0}     \* 0 is the connection at the start

VARIABLES
    (* the servers *)
    up, leader,
    registered,    \* the servers have the client in their tables
    mandates,
    (* the network *)
    asked,         \* asked[s]: the probes s has not answered
    inbox,         \* what the client's UDP socket has not been read of
    (* the client *)
    client,        \* "starting", "connected", "running" or "failed"
    attempt,
    connection,    \* the server its TCP socket is connected to
    tcp_sender,    \* the one its TcpSender writes to, None when stopped
    (* bounds and history *)
    crashes, restarts, late,
    robbed,        \* the answers that somebody else took from an attempt
    faults

serverVars == <<up, leader, registered, mandates>>
bounds     == <<crashes, restarts, late, robbed, faults>>
vars == <<serverVars, asked, inbox, client, attempt, connection, tcp_sender,
          bounds>>

(* Nobody looks at where a datagram came from.                             *)
Datagram ==
    [type : {"ConnectionAvailable"}, from : Servers]
    \cup [type : {"ConnectionNotAvailable"}, from : Servers,
          leader : Servers \cup {None}]
    \cup [type : {"ReconnectionMandate"}, from : Servers]

(* at is the place in dest_ports, via the server that is to be connected to.*)
Attempt == [phase : {"idle", "probe", "check", "finish", "setup", "done",
                     "gave up", "refused"},
            dest_ports : Seq(Servers), at : Nat \ {0},
            pass : 1 .. MaxPasses, via : Servers \cup {None}]

Idle == [phase |-> "idle", dest_ports |-> <<>>, at |-> 1, pass |-> 1,
         via |-> None]

(* A probe of a server that is down is lost.                               *)
Probing(asks, s) == IF s \in up THEN [asks EXCEPT ![s] = @ + 1] ELSE asks

Fresh(ports) == [Idle EXCEPT !.phase = "probe", !.dest_ports = ports]

Init ==
    \E l \in Servers :
        LET first == Fresh(Configuration)
        IN  /\ up = Servers
            /\ leader \in [Servers -> {l, None}] /\ leader[l] = l
            /\ registered \in BOOLEAN     \* a client that starts again is
            /\ mandates = 0
            /\ client = "starting"
            /\ attempt = [i \in Attempts |-> IF i = 0 THEN first ELSE Idle]
            /\ asked = [s \in Servers |-> IF s = Head(Configuration) THEN 1 ELSE 0]
            /\ inbox = <<>>
            /\ connection = None /\ tcp_sender = None
            /\ crashes = 0 /\ restarts = 0 /\ late = 0 /\ robbed = 0
            /\ faults = {}

----------------------------------------------------------------------------
(* The servers.                                                            *)

Leads(s) == s \in up /\ leader[s] = s

(* The client's port is bound while it starts and while it runs.           *)
Delivered(m) == IF client \in {"starting", "running"} THEN Append(inbox, m)
                ELSE inbox

AnswerOf_Always(s) == [type |-> "ConnectionAvailable", from |-> s]

AnswerOf(s) ==
    IF leader[s] = s THEN [type |-> "ConnectionAvailable", from |-> s]
    ELSE [type |-> "ConnectionNotAvailable", from |-> s, leader |-> leader[s]]

send_connection_answer(s) ==
    /\ s \in up /\ asked[s] > 0
    /\ asked' = [asked EXCEPT ![s] = @ - 1]
    /\ inbox' = Delivered(AnswerOf(s))
    /\ UNCHANGED <<serverVars, client, attempt, connection, tcp_sender, bounds>>

(* NotifyAllClientsIAmLeader, of the server s that leads.                  *)
NotifyAllClientsIAmLeader(s) ==
    IF registered
    THEN /\ mandates < MaxMandates
         /\ mandates' = mandates + 1
         /\ inbox' = Delivered([type |-> "ReconnectionMandate", from |-> s])
    ELSE UNCHANGED <<mandates, inbox>>

TakeOver(s) ==
    /\ s \in up /\ \A t \in up : t <= s /\ ~Leads(t)
    /\ leader' = [leader EXCEPT ![s] = s]
    /\ NotifyAllClientsIAmLeader(s)
    /\ faults' = faults
           \cup (IF client = "starting" THEN {"start disturbed"} ELSE {})
           \cup (IF registered /\ client = "running" THEN {} ELSE {"not told"})
    /\ UNCHANGED <<up, registered, asked, client, attempt, connection,
                   tcp_sender, crashes, restarts, late, robbed>>

(* The call of another server reaches the one that has just taken over.    *)
ElectedAgain(s) ==
    /\ Leads(s) /\ mandates > 0
    /\ NotifyAllClientsIAmLeader(s)
    /\ faults' = faults \cup {"told again"}
    /\ UNCHANGED <<up, leader, registered, asked, client, attempt, connection,
                   tcp_sender, crashes, restarts, late, robbed>>

(* The coordinator's line, or the answer to a query, reaches s.            *)
GotLeader(s, l) ==
    /\ s \in up /\ Leads(l) /\ leader[s] # l
    /\ leader' = [leader EXCEPT ![s] = l]
    /\ UNCHANGED <<up, registered, mandates, asked, inbox, client, attempt,
                   connection, tcp_sender, bounds>>

(* The client reads the end of its stream before the next leader answers.  *)
Crash(s) ==
    /\ s \in up /\ crashes < MaxCrashes
    /\ crashes' = crashes + 1
    /\ up' = up \ {s}
    /\ leader' = [leader EXCEPT ![s] = None]
    /\ asked' = [asked EXCEPT ![s] = 0]
    /\ connection' = IF connection = s THEN None ELSE connection
    /\ faults' = IF client = "starting" THEN faults \cup {"start disturbed"}
                 ELSE faults
    /\ UNCHANGED <<registered, mandates, inbox, client, attempt, tcp_sender,
                   restarts, late, robbed>>

(* The others have noticed by then that s was lost, and what it had sent to*)
(* the client was read.                                                    *)
Restart(s) ==
    /\ s \notin up /\ restarts + late < MaxDisturbances
    /\ \A t \in up : leader[t] # s
    /\ \A k \in DOMAIN inbox : inbox[k].from # s
    /\ \E l \in up : Leads(l)
    /\ up' = up \cup {s}
    /\ restarts' = restarts + 1
    /\ faults' = faults \cup {"restart"}
    /\ UNCHANGED <<leader, registered, mandates, asked, inbox, client, attempt,
                   connection, tcp_sender, crashes, late, robbed>>

----------------------------------------------------------------------------
(* The TcpConnector: connect and connect_with_socket.                      *)

Bound == client = "starting" \/ client = "running"

NextTry_OnePassLess(a) ==
    IF a.at < Len(a.dest_ports) THEN [a EXCEPT !.phase = "probe", !.at = @ + 1]
    ELSE IF a.pass < MaxPasses - 1
         THEN [a EXCEPT !.phase = "probe", !.at = 1, !.pass = @ + 1]
         ELSE [a EXCEPT !.phase = "gave up"]

NextTry_SameList(a) ==
    IF a.at < Len(a.dest_ports) THEN [a EXCEPT !.phase = "probe", !.at = @ + 1]
    ELSE IF a.pass < MaxPasses
         THEN [a EXCEPT !.phase = "probe", !.pass = @ + 1]
         ELSE [a EXCEPT !.at = @ + 1, !.phase = "gave up"]

(* The next port, or the first one of the next pass.                       *)
NextTry(a) ==
    IF a.at < Len(a.dest_ports) THEN [a EXCEPT !.phase = "probe", !.at = @ + 1]
    ELSE IF a.pass < MaxPasses
         THEN [a EXCEPT !.phase = "probe", !.at = 1, !.pass = @ + 1]
         ELSE [a EXCEPT !.phase = "gave up"]

Target(a) == IF a.phase = "check" THEN a.via ELSE a.dest_ports[a.at]

(* The attempt goes on as a: it sends the probe that a waits for.          *)
GoOn(i, a) ==
    /\ attempt' = [attempt EXCEPT ![i] = a]
    /\ asked' = IF a.phase \in {"probe", "check"} THEN Probing(asked, Target(a))
                ELSE asked
    /\ client' = IF i = 0 /\ a.phase = "gave up" THEN "failed" ELSE client

Awaits(i) == attempt[i].phase \in {"probe", "check"}

Refers(m) == m.type = "ConnectionNotAvailable"

After_UnknownEnds(a, m) ==
    CASE m.type = "ReconnectionMandate" -> NextTry(a)
      [] m.type = "ConnectionAvailable" /\ a.phase = "probe" ->
            [a EXCEPT !.phase = "check", !.via = Target(a)]
      [] Refers(m) /\ a.phase = "probe" ->
            IF m.leader = None THEN [a EXCEPT !.phase = "gave up"]
            ELSE [a EXCEPT !.phase = "check", !.via = m.leader]
      [] m.type # "ReconnectionMandate" /\ a.phase = "check" ->
            [a EXCEPT !.phase = "finish"]

(* What an attempt makes of the datagram that it reads.  Whoever answers is*)
(* taken for the one that was asked, and any answer will do for the check. *)
After(a, m) ==
    CASE m.type = "ReconnectionMandate" -> NextTry(a)
      [] m.type = "ConnectionAvailable" /\ a.phase = "probe" ->
            [a EXCEPT !.phase = "check", !.via = Target(a)]
      [] Refers(m) /\ a.phase = "probe" ->
            IF m.leader = None THEN NextTry(a)
            ELSE [a EXCEPT !.phase = "check", !.via = m.leader]
      [] m.type # "ReconnectionMandate" /\ a.phase = "check" ->
            [a EXCEPT !.phase = "finish"]

(* The source port cannot be bound while a connection has it, and the      *)
(* server must be there to connect to.                                     *)
finish_connection(i, a) ==
    /\ \/ /\ connection = None /\ a.via \in up
          /\ connection' = a.via
          /\ attempt' = [attempt EXCEPT ![i] = [a EXCEPT !.phase = "setup"]]
          /\ client' = IF i = 0 THEN "connected" ELSE client
          /\ inbox' = IF i = 0 THEN <<>> ELSE Tail(inbox)
       \/ /\ ~(connection = None /\ a.via \in up)
          /\ attempt' = [attempt EXCEPT ![i] = [a EXCEPT !.phase = "refused"]]
          /\ client' = IF i = 0 THEN "failed" ELSE client
          /\ inbox' = Tail(inbox)
          /\ UNCHANGED connection
    /\ UNCHANGED asked

(* An attempt has a mandate, or the answer of another server, for the      *)
(* answer to its probe.  A check that is passed ends with the connection.  *)
try_connection(i) ==
    /\ Awaits(i) /\ inbox # <<>>
    /\ LET m == Head(inbox)
           a == After(attempt[i], m)
           mandate == m.type = "ReconnectionMandate"
           misread == ~mandate /\ m.from # Target(attempt[i])
       IN  /\ \/ a.phase = "finish" /\ finish_connection(i, a)
              \/ /\ a.phase # "finish" /\ GoOn(i, a)
                 /\ inbox' = Tail(inbox) /\ UNCHANGED connection
           /\ robbed' = IF mandate \/ misread THEN robbed + 1 ELSE robbed
           /\ faults' = faults \cup (IF mandate THEN {"mandate misread"} ELSE {})
                              \cup (IF misread THEN {"misread"} ELSE {})
    /\ UNCHANGED <<serverVars, tcp_sender, crashes, restarts, late>>

(* MAX_WAITING_PERIOD_UDP_IN_MILISECONDS have passed.                      *)
Timeout(i) ==
    /\ Awaits(i)
    /\ \/ /\ inbox = <<>> /\ \A s \in Servers : asked[s] = 0
          /\ UNCHANGED late
       \/ /\ inbox # <<>> \/ \E s \in Servers : asked[s] > 0
          /\ restarts + late < MaxDisturbances /\ late' = late + 1
    /\ GoOn(i, NextTry(attempt[i]))
    /\ UNCHANGED <<serverVars, inbox, connection, tcp_sender, crashes, restarts,
                   robbed, faults>>

----------------------------------------------------------------------------
(* The client.                                                             *)

(* The actor is created, its socket bound for the gateway, and it starts   *)
(* with its registration.                                                  *)
Start ==
    /\ client = "connected"
    /\ client' = "running"
    /\ attempt' = [attempt EXCEPT ![0].phase = "done"]
    /\ tcp_sender' = attempt[0].via
    /\ registered' = (registered \/ connection # None)
    /\ UNCHANGED <<up, leader, mandates, asked, inbox, connection, bounds>>

(* The UdpGateway reads a mandate, and the client stops its TcpSender and  *)
(* attempts to connect to the new leader only.  A SetupReconnection that is *)
(* in the client's mailbox by then comes first.                            *)
ReconnectToNewPedidosRust ==
    /\ client = "running" /\ inbox # <<>>
    /\ \A j \in Attempts : attempt[j].phase # "setup"
    /\ Head(inbox).type = "ReconnectionMandate"
    /\ inbox' = Tail(inbox)
    /\ tcp_sender' = None
    /\ LET i == Min({j \in Mandates : attempt[j].phase = "idle"})
       IN  GoOn(i, Fresh(<<Head(inbox).from>>))
    /\ UNCHANGED <<serverVars, connection, bounds>>

(* The UdpGateway reads the answer to a probe, and drops it.               *)
Unrecognized ==
    /\ client = "running" /\ inbox # <<>>
    /\ Head(inbox).type # "ReconnectionMandate"
    /\ inbox' = Tail(inbox)
    /\ robbed' = robbed + 1
    /\ UNCHANGED <<serverVars, asked, client, attempt, connection, tcp_sender,
                   crashes, restarts, late, faults>>

SetupReconnection_OldSender(i) ==
    /\ client = "running" /\ attempt[i].phase = "setup"
    /\ attempt' = [attempt EXCEPT ![i].phase = "done"]
    /\ registered' = (registered \/ connection # None)
    /\ UNCHANGED <<up, leader, mandates, asked, inbox, client, connection,
                   tcp_sender, bounds>>

(* The client registers again.                                             *)
SetupReconnection(i) ==
    /\ client = "running" /\ attempt[i].phase = "setup"
    /\ attempt' = [attempt EXCEPT ![i].phase = "done"]
    /\ tcp_sender' = attempt[i].via
    /\ registered' = (registered \/ connection # None)
    /\ UNCHANGED <<up, leader, mandates, asked, inbox, client, connection,
                   bounds>>

----------------------------------------------------------------------------
PromptTimeout(i) == late' = late /\ Timeout(i)

Client ==
    \/ \E i \in Attempts :
          try_connection(i) \/ PromptTimeout(i) \/ SetupReconnection(i)
    \/ Start \/ ReconnectToNewPedidosRust \/ Unrecognized

Server == \E s \in Servers :
              \/ send_connection_answer(s) \/ TakeOver(s)
              \/ \E l \in Servers : GotLeader(s, l)

Next ==
    \/ \E i \in Attempts :
          try_connection(i) \/ Timeout(i) \/ SetupReconnection(i)
    \/ Start \/ ReconnectToNewPedidosRust \/ Unrecognized
    \/ Server
    \/ \E s \in Servers : ElectedAgain(s) \/ Crash(s) \/ Restart(s)

(* The tasks of the client and the servers go on; nobody needs to die, to  *)
(* be late, or to be elected twice.                                        *)
Spec == Init /\ [][Next]_vars /\ WF_vars(Client) /\ WF_vars(Server)
----------------------------------------------------------------------------
TypeOK ==
    /\ up \subseteq Servers
    /\ leader \in [Servers -> Servers \cup {None}]
    /\ registered \in BOOLEAN
    /\ mandates \in 0 .. MaxMandates
    /\ asked \in [Servers -> Nat]
    /\ inbox \in Seq(Datagram)
    /\ client \in {"starting", "connected", "running", "failed"}
    /\ attempt \in [Attempts -> Attempt]
    /\ \A i \in Attempts : attempt[i].phase # "idle" =>
           attempt[i].at \in DOMAIN attempt[i].dest_ports
    /\ connection \in Servers \cup {None}
    /\ tcp_sender \in Servers \cup {None}
    /\ crashes \in 0 .. MaxCrashes /\ robbed \in Nat
    /\ restarts \in Nat /\ late \in Nat /\ restarts + late <= MaxDisturbances
    /\ faults \subseteq {"start disturbed", "misread", "mandate misread",
                   "not told", "told again", "restart"}

(* A client that starts while there is a leader, which nothing happens to, *)
(* finds it, though other servers do not know it yet.                      *)
StartsWithALeader ==
    client = "failed" => late > 0 \/ "start disturbed" \in faults

(* An attempt to connect to a new leader that lives gives up only when its *)
(* answers were taken, one in each pass, by the gateway or another attempt,*)
(* or a mandate was taken for them.                                        *)
GivesUpOnlyWhenRobbed ==
    \A i \in Mandates :
        attempt[i].phase = "gave up" /\ Range(attempt[i].dest_ports) \subseteq up
        /\ late = 0 /\ restarts = 0
            => robbed >= MaxPasses

(* The server that a client is connected to leads, however it was found and*)
(* whoever took its answers, as long as it took no answer for that of      *)
(* another server, and no server has come back.                            *)
ConnectsToTheLeader ==
    "misread" \notin faults /\ restarts = 0 /\ connection # None
        => Leads(connection)

(* It can hear the leader, and talk to it.                                 *)
Served == connection # None /\ Leads(connection) /\ tcp_sender = connection

(* A client that was known, and was told of each new leader once, is served*)
(* by the last one in the end, unless its gateway took the answers, an     *)
(* attempt took a mandate, or it took an answer for that of a server that  *)
(* was down and has come back.                                             *)
IsServedAgain ==
    <>[](\/ Served
         \/ up = {} \/ client = "failed" \/ late > 0 \/ robbed >= MaxPasses
         \/ {"not told", "told again", "mandate misread"} \cap faults # {}
         \/ {"misread", "restart"} \subseteq faults)

(* README: a client connects to the server that leads, and can reconnect.  *)
(* So one that runs is served in the end, by a leader that nothing happens *)
(* to.                                                                     *)
CanReconnect ==
    <>[](Served \/ up = {} \/ client = "failed" \/ late > 0
         \/ "not told" \in faults)
=============================================================================
