# A TLA+ development of PedidosRust

PedidosRust is a food delivery service made of Rust processes. This directory
holds TLA+ models of its core, the TLC runs that check them, and proofs of
some of the properties, checked by TLAPS. Paths below are relative to the
root of the repository; `connection_manager.rs` and the other files named
without a directory are in `pedidos-rust/src/`.

| file | what it is |
|------|------------|
| `OrderFlow.tla` | the life of an order at the leading server, with its clients |
| `OrderLifecycle.tla` | what is promised of an order: the abstract specification |
| `OrderRefinement.tla` | the mapping under which `OrderFlow` implements it |
| `MCOrderFlow.tla`, `OrderFlow_*.cfg` | the instances of these that TLC checks |
| `OrderFlowProofs.tla` | theorems about `OrderFlow`: types, queue, what is charged |
| `OrderOnceProofs.tla` | theorems about `OrderFlow`: an order is gone through once |
| `OrderRefinementProofs.tla` | the theorem that `OrderFlow` implements `OrderLifecycle` |
| `BullyElection.tla`, `Election_*.cfg` | how the servers choose their leader, and its instances |
| `BullyElectionProofs.tla` | theorems about `BullyElection` |
| `DataRing.tla`, `MCDataRing.tla`, `Ring_*.cfg` | how the leader's tables reach the other servers, and its instances |
| `DataRingProofs.tla` | theorems about `DataRing`: types, the leader's riders, the end of a round, the replicas |
| `ClientReconnection.tla`, `MCClientReconnection.tla`, `Reconnection_*.cfg` | how a client finds the leader, and the next one, and its instances |
| `SurvivorProofs.tla` | the theorem about `DataRing` once its leader has died |
| `ClientReconnectionProofs.tla` | theorems about `ClientReconnection`: types, whom a client is connected to, its start, attempts that give up |
| `SetFacts.tla` | lemmas about sets of numbers, finite sets and places in sequences |
| `PROJECT.json` | runs, faulty variants, hazards, findings, and the source lines of each definition |

## 1. Inventory

All processes are built on actix: an actor has a FIFO mailbox and handles one
message at a time. The handlers marked `#[async_handler]` are *atomic
responses*: while one awaits, its actor handles nothing else. `do_send` to an
actor that has stopped is dropped without a trace. An actor that reads a
socket looks at the socket when its mailbox is empty.

| component | state | operations | modelled by |
|---|---|---|---|
| `ConnectionManager`, order handling (`connection_manager.rs`) | the registered customers, riders, restaurants and the payment system, each with the address of its connection; `orders_in_process`; the `pending_orders` of each restaurant; `pending_delivery_requests` | one handler per message: registrations, list of restaurants, authorization, order, ready or cancelled, search for a rider, acceptance, delivery, charge | `OrderFlow` |
| `ConnectionManager`, election, and `ServerPeer` (`server_peer.rs`) | `server_peers`, `leader`, `election_in_progress`; one `ServerPeer` per connected server | join, `LeaderQuery`, the two-second check, loss of a peer, `ElectionCall`, `ElectionCoordinator`, announcement to the clients | `BullyElection` |
| `ConnectionManager`, replication ring | `next_server_peer`, `historical_state` | `send_message_to_next_peer`, `update_next_peer`, replay of the history, the `Update…`, `Remove…`, `Push…` and `Pop…` handlers | `DataRing` |
| `ClientConnection` (`client_connection.rs`) | the location of its client | turns lines into messages to the manager, and messages into lines | the mailbox and outboxes of `OrderFlow` |
| `NearbyEntities` (`nearby_entitys.rs`) | – | the restaurants and the riders within reach | a choice in `OrderFlow`; its `unwrap` in `DataRing` |
| `Server` (`server.rs`) | the ports for peers in use | start, connection to the other servers, accept | `BullyElection` and `DataRing`, one server at a time |
| `ConnectionGateway`, `TcpConnector` (`connection_gateway.rs`, `common/src/tcp/`) | – | the UDP probe that finds the leader, the check, the TCP connection | `ClientReconnection`; the probe between servers in `DataRing` |
| `Customer`, `Rider`, `Restaurant`, `PaymentSystem` (their own crates) | the prompt; `busy` and the customer of a rider; the timers of a restaurant | the client's side of each exchange | `OrderFlow` |
| their reconnection, `UdpGateway` | the `TcpSender` and the socket to the leader | `ReconnectToNewPedidosRust`, `SetupReconnection` | `ClientReconnection` |
| protocol, configuration, logger | – | serialization, file, output | not modelled: I/O |

The four models share no variables. Each reduces what the others describe to
what can be seen of it: `OrderFlow` has one leader that stays; `DataRing` and
`ClientReconnection` have the outcome of an election (the highest server takes
over) where `BullyElection` has the election; and `DataRing` reduces a client to
the answers it still owes. Joined, they would be far beyond TLC's reach.

What is hard: customers, riders, restaurants and servers act at their own
pace and the manager sees only one interleaving of their messages; handlers
send messages to their own actor, so a decision and its effect are apart;
every client and every server may be killed and started again; a line or a
message to somebody who is gone is lost silently; and nothing is persisted.
`PROJECT.json` lists the hazards one by one, at the line where each bites.
What makes each component correct:

- *order handling*: one rider per order, the first that accepted; nobody is
  charged for what was not authorized; an order that is over is really over;
  no order and no delivery is forgotten; a customer is always asked again.
- *election*: at most one live leader; the highest server takes over; a live
  leader is not deposed; a dead one is replaced; clients and servers that
  join learn who it is.
- *ring*: each server has the tables of the one before it but for what is on
  the wire; an update goes round once; when the leader is gone the survivors
  end up with the same tables.
- *probe and reconnection*: a client ends up at the server that leads, and is
  heard by it.

## 2. OrderFlow, OrderLifecycle

**State.** The manager's fields keep their names. A map from ids to addresses
(`rider_connections`…) is a function to the *session* of the client, 0 for an
absent key; `customers` holds the last `order_price` of a customer. The
n-th order of a customer costs n, so that a price identifies an order.
`orders_in_process` has a key for every customer *and every rider*: the
handler of an acceptance does write under both. The clients' state is
`session` (how often the process was started), `outbox` (what the server has
written to it and its actor has not handled), `placed` and `prompts` of a
customer, `cooking` of a restaurant (orders whose timer is running), `busy`
and `customer_id` of a rider. `log` and `assigned` are history for the
properties and are read by no action.

**Actions.** Each handler of the manager is an action with the handler's
name, and a call it makes to `process_pending_requests` is part of it. A
message a handler sends to its own actor is appended to `mailbox`. `Start…`
starts a process or kills it and starts it again; the old session's outbox
vanishes and what is sent to the old session later is dropped (`Post`).
Each client handler that talks to the server is an action. What a person, a
random number or a timer decides is a nondeterministic choice.

**Abstractions.** The order in which the lines of different clients reach the
mailbox is arbitrary, because each client acts when it likes; so the time a
line spends on the wire and in a `ClientConnection` is not modelled
separately. Coordinates are left out: the restaurants near a customer are the
constant `Nearby`, and the closest riders any `NRidersToNotify` of the
connected ones. A rider takes the confirmation, and the note to itself to go,
in the two orders in which actix may put them in its mailbox. Push
notifications and the messages to and from the other servers are left out, as
is the arrival of a location. There is one payment system, which keeps no
state.

**Assumption.** A client that is killed and started again registers after the
lines of its old session have reached the manager (`Restarted`). The two
sessions come through two sockets and two `ClientConnection` actors, so that
the code does not enforce this order; but whoever starts the process again takes
longer than a line that is already at the server. `ImplementsLifecycle`, and the
theorem about it, rest on this assumption.

**The abstract specification.** `OrderLifecycle` knows of an order only how
far it is – placed, refused or authorized, cancelled or ready, assigned,
charged – and who carries it; each step is taken at most once, and an order is
not left waiting for payment or kitchen. `OrderRefinement` maps `OrderFlow` to
it: the furthest stage that `log`, `assigned` and `placed` show of the order,
and the rider it was given to. `ImplementsLifecycle` says that every behaviour of
`OrderFlow`, so mapped, is one of `OrderLifecycle`, its fairness included. It is
checked with one order per customer: with two, both share one entry of the table
(`AssignedOnlyWhenReady` below), and no such mapping exists.

### Runs

| run | instance | checks | result |
|---|---|---|---|
| `OrderFlow_restarts` | 1 customer × 2 orders, 2 riders; customer, riders and payment system killed once | `TypeOK`, `ChargedWasAuthorized`, `OneRiderPerOrder`, `SettledOrderIsGone`, `AssignmentIsFinal` | hold |
| `OrderFlow_recovery` | 2 customers × 1 order, 1 rider, the restaurant killed twice; fair | `WaitingMeansNoRider`, `OrderIsAnswered`, `CustomerIsReleased`, `ImplementsLifecycle` | hold |
| `OrderFlow_declined` | 1 customer, 1 rider; fair | `NoDeliveryRequestLost` | violated |
| `OrderFlow_late_acceptance` | 1 customer × 2 orders, 2 riders | `AssignedOnlyWhenReady` | violated |

*Why these bounds.* Two riders are what a race for one order needs; two
orders of one customer, what makes the old and the new order meet under one
key; two customers, what makes one rider or one queue serve two orders. One
kill of each client is enough for a message to an address that is gone and
for a process without memory. `MaxOrders` bounds the orders and `MaxSessions`
the starts of each process; nothing else is bounded. `OrderFlow_restarts` sends
each offer to one rider, so that two riders come to hold offers for the same
customer only through two orders or the queue; the late acceptance has both.
Deadlock is not checked, since a system whose orders are over stops.

*Fairness.* `Handle`, the actions of the client actors and a running timer
are weakly fair: tokio and actix go on running a task that can run, and
sleeps end. That a person starts a process or orders again, and which answer
a restaurant, a rider or the payment system gives, is not assumed.

*What the violations say.* Each of these properties states what a document or
a comment promises, and its trace is a behaviour of the code:

- `NoDeliveryRequestLost`: the queue is emptied on the first rider with a
  connection; if that one declines, which it does silently, no other is asked.
- `AssignedOnlyWhenReady`: an acceptance names the customer only. The second
  rider's acceptance for the first order may arrive when the customer has
  ordered again, and takes the order that is still being cooked.

Two more behaviours are in the model and contradict no document. A rider may
accept two offers before its first confirmation; it has room for one customer,
and the other order stays in the table. And a cancelled order stays in
`pending_orders`, so that the restaurant gets it again when it restarts.

## 3. BullyElection

**State.** `state` of a process; of each manager the mailbox, `server_peers`,
`leader` (an id) and `election_in_progress`; of each `ServerPeer` (`s`'s actor
for `p`) whether it reads its stream, its `inbox` and its timer; `wire[s, p]`,
the lines from `s` that `p` has not read. `announced` is the server that last
told the clients it leads.

**Actions.** One per handler of the manager and of the `ServerPeer`;
`DispatchMessages`, the stream handler, moves any number of lines that have
arrived, and the end of the stream, at once. It gives `LeaderData` and the
disconnection directly to the manager but turns the other lines into notes to
itself, so the death of a server may overtake its announcement: that order is
in the model because it is in the code. `SendLeader` and
`GotLeaderOrCallElection` await an answer of the manager; the actor is stuck
until `GetLeaderInfo` answers it, which is why that action finishes both.
`Crash` kills a server at any moment, with whatever part of its output had
left. `Start`, `ConnectServerPeer` and `Serve` are `Server::run`.

**Assumptions.** Servers start one at a time, and a killed one starts again
only when the others have handled the loss of it. With `Patient`, the two
seconds of a `ServerPeer`'s timer and the person who starts a server are slower
than any exchange of messages. They are what one would expect of an operator;
two servers that start together may both lead (see "Not modelled").

**Abstractions.** `ElectionOk` is left out: the code sends it and ignores it.
The manager's answer to `GetLeaderInfo` and what the waiting `ServerPeer` does with
it are one step. The actor reads nothing else in between, so only its line, or its
note to itself, may be later in the code than here; and it may be late here as
well, on the wire or in the inbox. `ConnectServerPeer` makes both ends of a connection,
of which each process makes its own: what one end writes before the other is there
waits in the socket, as it does here in `wire`.

### Runs

`Established` is the state after all servers have joined: each knows each,
they agree on a leader – any of them, since the first to start is – and
nothing is under way.

| run | instance | checks | result |
|---|---|---|---|
| `Election_crashes` | 3 established servers, up to 3 crashes; fair | `TypeOK`, `AtMostOneLeader`, `HighestTakesOver`, `LiveLeaderStays`, `OnlyOpenElectionsStall`, `ClientsAreTold` | hold |
| `Election_restarts` | 2 servers, each started twice, 2 crashes; fair | `AtMostOneLeader`, `JoinersLearnLeader` | hold |
| `Election_no_successor` | 3 established servers, 1 crash; fair | `LeaderIsReplaced` | violated |

*Why these bounds.* Three servers are the least with a middle one, which is
both called and calling, and three crashes leave any of them alone at any
moment. Two servers are enough for a join, as a joiner asks each peer
separately. The joins of three servers, and four servers, are beyond TLC's
reach in the time a run is given. Deadlock is not checked: a cluster in peace
has nothing to do.

*Fairness.* Every actor goes on and every timer ends. Nothing is assumed of
crashes and starts.

*What the violation says.* The leader 3 dies; 1 notices first and calls 2,
which still counts 3 among its peers, so it forwards the call to it and waits.
When 2 notices too, its own call is ignored because an election is in
progress, and nothing will ever end that one: 1 and 2 have no live leader.

*Limits of the properties that hold.* `OnlyOpenElectionsStall` and
`LiveLeaderStays` are about one crash. After two, a coordinator's line that
its `ServerPeer` still has to pass on may reach the manager after the loss of
that coordinator was handled: a server that leads by then turns to the dead
one, and stays with it. `JoinersLearnLeader` is about joins without a crash:
when the only peer of a joiner dies before it answered the `LeaderQuery`, the
joiner's leader is unknown, so the loss means nothing to it, and the
`ServerPeer` that would have called an election after two seconds has been
stopped. TLC shows both when the condition on `crashes` is taken away.

## 4. DataRing

**State.** `tables[s]` is what the manager of `s` has of the replicated maps:
`customers` (with the price of the last order), `riders`, `restaurants` (with
their `pending_orders`), whether there is a payment system, `orders_in_process`
and `pending_delivery_requests`. `historical_state[s]` is every update that `s` has
sent, or would have; `connected[s]` the clients whose connections it has, which
are not replicated; `wire[s][t]` what `s` has sent `t`. `starting` and `link` are the
server that joins and how far it is with each of the others. `due` are the answers
that the clients still owe, and the notes of a manager to itself to look for a rider.
`faults` is history: which of the disturbances below has happened.

**Actions.** Each handler of a client's message that changes a replicated table is an
action, and with it everything it sends: what goes through
`send_message_to_next_peer` (recorded in the history, not sent on to the leader) and
what it writes to the next peer directly, and what `process_pending_requests` adds.
`ReceiveUpdate` is the eight handlers of the peers' updates, each of which changes the
tables, sends the update on, and processes the queue. `Overtaken` is the detour
of the coordinator's line through the mailbox of the `ServerPeer`. `Crash` loses a
part of what was sent, `PeerDisconnected` and `TakeOver` are the election, reduced to its
outcome, and `Start` … `InitLeader` the join, in which both ends send each
other their histories.

**Abstractions.** An offer or a confirmation that is on its way to a rider is the
entry of `due` it leads to. That a client registers with a leader is bounded by
`MaxVisits`, and so are location updates, of which only the fact counts.
The authorization of an order is part of `OrderRequest`: it takes a payment system
that has registered with this server (`AuthorizePayment`). The restaurant need not
have: it is in the list that the customer was sent as soon as the table has it, and
finds the order among its `pending_orders` when it registers.
The distance of a rider is left out: `FindRider` asks all it knows of,
and panics, as `closest_riders` does, when one has no connection.

### Runs

| run | instance | checks | result |
|---|---|---|---|
| `Ring_replication` | 3 servers in a ring, one of which is lost, or 1 server that another joins; 1 client of each kind, 1 order, 2 registrations or locations | `TypeOK`, `ReplicasFollow`, `RoundsEnd`, `SurvivorsAgree`, `LeaderHasItsRiders` | hold |
| `Ring_panic` | the same, with 3 registrations or locations | `ConfirmedToExist` | violated |
| `Ring_storm` | 2 servers, no disturbance | `OneRoundPerUpdate` | violated |

*Why these bounds.* Three servers are the least in which an update is passed on by
somebody who did not make it. `Clusters` says who is up and known at the beginning:
without it the registrations alone would fill the state space. One order has updates
of every kind but `Pop` and `Push`, and those come when no rider is known.
`MaxHistory` 9 is room for the six updates of an order that is placed after one
registration and gets as far as its payment, on top of the three of the clients that
were known at first; with a second visit the run ends one update earlier, and
where a server joins and sends on what it is sent, earlier still. The panic takes
three registrations: the customer's, before the leader dies and after, and the
restaurant's at the successor. `MaxRepeats` 1
stops a storm (below) after its first round. With a room for 12 updates TLC
had found no violation after twelve million states, when it was stopped, and with three
visits none after ten million.

*What holds, and within which limits.* The antecedents of these properties name the
disturbances under which they fail, and each was found by TLC when it was
missing:

- `ReplicasFollow`: the tables of `s`, and the updates on the wire from it, make
  the tables of the next server. Not when a server dies: what it had not
  sent on is lost to those behind it, and nobody sends it again. Not when a
  server joins two: both send it their histories, it sends on what it gets, and
  old updates go round again. Not after a second acceptance of an order ("stray"): the
  replicas are told of the second rider, the leader's own entry stays.
- `Shared` is what is compared. A registration of a known customer sends
  the others a price it does not have, so only who is known is compared of the
  customers; `pending_orders` are sent only when a restaurant registers, and a replica
  that does not know the restaurant drops them, so that they are left out.
- `SurvivorsAgree`: when the leader dies, its last updates may be ahead of the
  election at one survivor and behind it at another; in the end the survivors agree.
  "Hasty" takeovers are excluded. One kind is a takeover while another server still
  counts the old leader among its peers: what that server passes on stops too
  early. The other is a takeover while an update is on its way between two of the
  others. The leader, 4, has sent an update to 1, and 1 has sent it on to 2, when 4 dies
  and 3 takes over; 2 hears of 3 before it reads the update, makes it, and does not
  send it on, because the next server is the leader now
  (`send_message_to_next_peer`). 1 and 2 have what the new leader has not, and
  nothing will tell it: README.md:342 wants all the replicas to have the same
  state, so that any of them can become the leader. With three servers this cannot
  happen, as only one other is left when the loss of the leader has been
  handled; `config.json` has four. That the property as stated holds for any
  number of servers is proved (section 6). Second acceptances are excluded as well.
- `RoundsEnd` and `LeaderHasItsRiders`: while no delivery waits, nothing the leader
  has written comes back to it; and what `closest_riders` takes for granted holds
  at a leader that was not preceded by one that died.

*What the violations say.* `ConfirmedToExist`: a new leader has the riders of the old
one in its table before they have reconnected; when a restaurant that was faster has
an order ready, `closest_riders` unwraps a connection that is not there and the manager
panics. `OneRoundPerUpdate`: a replica has no riders connected, so
that each update it handles while a delivery waits makes it put the delivery back in
front and tell the next server so, directly; with two servers that is the
leader, which queues it again and does the same.

## 5. ClientReconnection

**State.** Of the servers, who is `up`, whom each takes for the leader, and whether
they have the client in their tables; `asked[s]`, the probes `s` has not
answered; `inbox`, the datagrams the client's socket has not been read of. Of the
client: its life (`starting`, `connected`, `running`, `failed`), the `attempt` at
the start (0) and one for each mandate, the server its TCP socket is connected to, and
the one its `TcpSender` writes to.

`Configuration` is the order in which the configuration file lists the servers, and in
which a client that starts asks them; the runs take the list 1, 2, 3 or 1, 2, the theorems
(section 6) any list.

**Actions.** An attempt reads one datagram (`try_connection`) or waits for none
(`Timeout`): it goes to the next port of `dest_ports`, or to the check of the
server it was referred to, or to the TCP connection (`finish_connection`), or
gives up after `MAX_CONNECTION_PASSES`. The gateway reads the same socket: a mandate
becomes `ReconnectToNewPedidosRust`, anything else is dropped (`Unrecognized`).
`SetupReconnection` gives the client its new sender. `TakeOver` and `ElectedAgain`
are the two occasions on which a server announces itself.

**Assumptions.** The highest live server takes over. The client's UDP socket is
bound while it starts and while it runs. The TCP port it is to use is free:
`finish_connection` binds a fixed one without SO_REUSEADDR (tcp_connector.rs:37-38), so
that a process which is started again at once may find it in TIME_WAIT and fail;
`StartsWithALeader` presumes that it does not. What a client registers counts
as known to the server as soon as `SetupReconnection` has given it its sender: the way of
the registration, and of its copies to the other servers, is `DataRing`'s.
The client reads the end of a
stream before the next leader answers it. A server that comes back does so
when the others have noticed its loss, when there is a leader, and when what it had
sent has been read. `Timeout` comes when no answer can come any more; one that comes
before the answer is a disturbance, and bounded.

| run | instance | checks | result |
|---|---|---|---|
| `Reconnection_attempts` | 3 servers, 2 crashes, 2 mandates, 2 passes, 1 disturbance; fair | `TypeOK`, `StartsWithALeader`, `GivesUpOnlyWhenRobbed`, `ConnectsToTheLeader`, `IsServedAgain` | hold |
| `Reconnection_robbed` | 2 servers, 1 crash, 1 mandate, 3 passes; fair | `CanReconnect` | violated |

*Why these bounds.* Three servers are a leader, one that refers to it and one that
does not know it yet, and let the leader be lost twice; two mandates are two attempts
that share a socket. With two passes each property is about a second one; the
code has three, which the second run, the smaller one, does as well.

*Fairness.* Weak, of the client's tasks and of the servers': the probe is answered, the
socket is read, the sleep ends. Nobody has to die, to be late or to be elected twice.

*What holds, and within which limits.* A client that starts while there is a leader
finds it. An attempt to reach a live leader gives up only when each of its passes lost
an answer to somebody who reads the same socket. Who is connected is connected to the
leader, but for two things the model shows to break it: the sender of a
datagram is not looked at, so an answer that is late or was meant for another attempt is
taken for that of the server just asked ("misread"), and a server that comes back may
be connected to as the leader it was. `IsServedAgain` excludes what leaves a
client without a leader: a mandate that came before the client was registered, or
before its socket was bound ("not told"); a second mandate of the same leader, which
stops the new `TcpSender` and makes an attempt that cannot bind the port the connection
has ("told again"); a mandate that an attempt reads instead of the gateway ("mandate
misread").

*What the violation says.* `CanReconnect`: with none of these, the gateway may still
read the answer to the probe in each of the three passes; the attempt then gives up with
a line in the log, and the client stays without a server though the leader is there.

## 6. Proofs

`OrderFlowProofs` proves, for all values of the constants that satisfy
`OrderFlowAssumption` (any number of clients, orders and restarts):

- `TypeCorrect`: `Spec => []TypeOK`. The type invariant is not inductive by
  itself. A customer's price enters the table from `customers`, and an
  acceptance copies it, so one needs to know that only known customers have
  entries and messages; `TypeInv` adds these facts.
- `WaitingCorrect`: `Spec => []WaitingMeansNoRider`. A delivery is queued by
  `FindRider` only when no rider is connected, and a rider connects only in a
  handler that drains the queue.
- `ChargedCorrect`: `Spec => []ChargedWasAuthorized`. Between the authorization
  and the charge an order is a message, a table entry, a message again
  and a line to the payment system. `AuthInv` says of each of these that what
  it holds is authorized: `AuthMail` of `PaymentAuthorized` and
  `OrderRequest` messages, `AuthTable` of the entries and the recorded
  prices, `AuthLines` of `ExecutePayment` lines. The lemmas say that each of
  the three survives the sending and taking of a message (`AuthMailTail`,
  `AuthMailAppend`, `AuthLinesTail`, `AuthLinesAppend`, `PostElsewhere`,
  `ProcessElsewhere`) and that the log only grows (`AuthGrows`); then each
  handler is one step (`AuthHandle`), and so is each client.

`OrderOnceProofs` proves under the same assumption that an order is gone through once:

- `OneRiderCorrect`: `Spec => []OneRiderPerOrder`.
- `SettledCorrect`: `Spec => []SettledOrderIsGone`.
- `AssignmentCorrect`: `Spec => AssignmentIsFinal`.

`OneRiderPerOrder` is not inductive: a second request for an order would enter the
order in the table anew, without a rider, and the next acceptance would give it away
again. `OnceInv` therefore says where an order can be. The request for it is at one
place at a time: one message (`Distinct`, `Pending`), or one line to the payment
system (`Sent`); while it is there, the order is not in the table, is given to nobody,
is not due for payment and is not settled. An order in the table is neither due nor
settled, and if its entry has no rider, nobody was given it; nothing at all is
known of an order that the customer has not placed. `Ledger` says this for one order. A
handler touches one order, so that `LedgerKept` and `OnceAside` deal with all
the others; then there is one lemma for each handler that moves a request (`OnceAuthorizePayment`
to `OnceOfferAccepted`), one for all those that move none (`HandleQuiet`), and one for each
client. `AssignmentCorrect` uses the same invariant: an entry that has a
rider cannot be replaced by one of the same price, as the request for it is gone (`RiderStays`).

`OrderRefinementProofs` proves, for `MaxOrders` = 1 and everything else arbitrary:

- `LifecycleCorrect`: `Spec => Lifecycle!Init /\ [][Lifecycle!Next]_(Lifecycle!vars)`,
  the part of `ImplementsLifecycle` that is not about fairness: an order goes through
  its life one step at a time and never back.

A step of `OrderFlow` that adds to `log`, `assigned` or `placed` must find the order
at the stage before. `StoryInv`, which uses `TypeInv`, `AuthInv` and `OnceInv`, says
why it does:

- `Connected`: a customer that has ordered is known to the manager, so that no
  handler ignores the end of its order;
- `Offered`: every message, line and queue element about a delivery is backed by the
  log (the order is ready) or by an assignment (it was given to a rider);
- `Registering`: no registration of a restaurant comes twice, and a restaurant whose
  registration is still on its way cooks nothing;
- `Payment`: while the payment is being asked for, the order is not authorized, and
  an authorized order is not refused;
- `Kitchen`: an order is at one restaurant. The difficult case is a restaurant that
  is killed after its answer: it gets the order again from `pending_orders` when it
  registers. `Ahead` says that its earlier answer is in the manager's mailbox before
  that registration, so the order is off the list by then, or was cancelled and stays
  so for the customer.

There is one lemma per part and kind of step (`OfferedStep`, `ConnectedStep`,
`RegisteringStep`, `PaymentStep`, `KitchenStep`; `StoryStep` joins them). The mapping
takes the furthest stage of a sequence, which `StatusIs` turns into a formula the
provers can use; then each step that writes history is mapped to its step of
`OrderLifecycle` (`MapPlaced`, `MapAuthorized`, `MapRefused`, `MapAnswered`,
`MapAssigned`, `MapCharged`), and `MapStep` shows that all others leave it alone.

`BullyElectionProofs` proves, for any number of established servers, of which any
may crash at any moment (`EstablishedSpec`, `ElectionAssumption`, and `MaxStarts`
= 1, by which nobody starts again; `Patient` or not):

- `TypeCorrect`: `EstablishedSpec => []TypeOK`.
- `LeaderIsUnique`: `EstablishedSpec => []AtMostOneLeader`.
- `BullyRule`: `EstablishedSpec => HighestTakesOver`.
- `LeaderIsKept`: `EstablishedSpec => LiveLeaderStays`.

The first three follow from `ElectInv`. That there is one leader is not inductive: it must
be known why a second one cannot appear. As long as the established leader lives nobody
speaks of an election (`Calm`: the managers hear of nothing but losses, the
`ServerPeer`s of nothing but their end). Once it has died, whoever leads has outlived
every higher server (`Led`). A server concludes that from its `server_peers`, so
`Known` is needed: it counts every live server among them. `Known` in turn needs that a
loss is reported only of a server that is dead, which `Notes`, the messages a
manager can have in its mailbox, says; and `Buried` and `Selfless`, that the
dead do nothing and no server talks to itself. There is one lemma per action
(`CrashStep`, `PeerDisconnectedStep`, …); the actions of the join are disabled
(`NobodyJoins`, `NobodyAsks`, `NoPeerAsks`).

`LeaderIsKept` needs more than who leads: who may still be announced. `Inherited` says
that the calm lasts until the leader crashes, and that from then on, until a second
server does, only the highest live server is followed or announced: in a line on a wire,
in an order to or a note of a `ServerPeer`, or in a message to a manager (`Heirs`).
A server finds no peer above it only if it is the highest, since it knows of all that live
(`NoHigher`), and there is only one highest (`OneHighest`): so whoever follows a
live one can turn only to the same. The second crash ends this, as a line of the dead heir
may still be on its way (section 3, *Limits of the properties that hold*).

`ClientReconnectionProofs` proves, for any number of servers, ports and attempts
(`ReconnectionAssumption`):

- `TypeCorrect`: `Spec => []TypeOK`, from `TypeInv`: the attempt that the client
  starts with is never idle.
- `OnlyToTheLeader`: `Spec => []ConnectsToTheLeader`.
- `FindsTheLeader`: `Spec => []StartsWithALeader`.

`LeadInv` says that there is one leader at most and that the dead follow nobody.
`OnlyToTheLeader` is about a connection that was found several messages earlier, and
rests on all that was said on the way to it. `TrueInv` says that, while no server has
come back, all of it is about servers that lead for as long as they are up (`Lasting`):
whom a server follows (`Followed`), what is in the inbox (`AllHeard`), the port of an
attempt that a mandate began (`Sought`), and, if no answer was misread, what an attempt
checks (`Checked`) and the client keeps (`Kept`). `FindsTheLeader` needs to know that
the client starts with the attempt 0 and makes the others when it runs, each for a
mandate (`PhaseInv`); and that, while nothing disturbs the start, the servers before the
one it probes do not lead, and nothing but the one answer it waits for is on its way
(`Expected`, `StartInv`).

The last of them,

- `GivesUpOnlyRobbed`: `Spec => []GivesUpOnlyWhenRobbed`,

is an argument by counting. An attempt that a mandate of the live leader began
has a claim on it for every pass but the one that was answered, and any other attempt
that asks it has one for its last probe (`Claims`). A claim is met by a question that the
leader has still to answer (`asked`), by an answer of the leader in the inbox
(`Answers`), or by a robbery (`robbed`), and `Met` says that there are no more
claims than these three. `OrderInv` says what an answer can be taken for: no referral
comes from a server behind its own mandate, or from one that an attempt was
begun for. `Robbed` says that an attempt is at most one pass ahead of the robberies, and
not ahead when the pass is lost. A timeout keeps it, as an attempt times out
only when nothing is on its way any more: then its claims are met by robberies alone.

`DataRingProofs` proves, for any number of servers, clients, orders, updates and
disturbances (`DataRingAssumption`):

- `TypeCorrect`: `Spec => []TypeOK`.
- `RidersConnected`: `Spec => []LeaderHasItsRiders`.
- `NoneComesBack`: `Spec => []RoundsEnd`.
- `ReplicasAgree`: `Spec => []ReplicasFollow`.

Every handler ends in `Finish` or `ProcessPending`, so the proofs have one lemma on
each way to end (`FinishTurn`, `ProcessPendingTurn`), one per handler that says what it
makes of the tables and tells the ring (`OrderReadyTurn`, `DeliveryDoneTurn`, …), and one on
what a kind of line on the wires becomes when only lines of that kind are sent (`SendsKind`).
`TypeInv` adds to `TypeOK` that a manager knows every client that is connected to it
(`KnownHere`: the update that a rider's location makes names a rider, and must not
be the first that the replicas hear of it) and that connections are made to the server
that starts (`Linked`).

That the leader has its riders is a statement about one server, and holds because of
all of them: a rider enters the leader's table by any `UpdateRider` that reaches it, and
a joiner's history may bring one back. `Reigns(l)` says that `l` leads for as long as it
lives (`Rules`: nobody calls an election, no other server follows another leader or has
clients) and that every rider that is named by any table, wire or history is connected
to `l` (`Serves`, with `Loyal` for a line on a wire). A rider is connected to `l` before
it is named, and `l` loses no connection.

A round ends at the server before the leader since each server tests the id of the
next one; but `process_pending_requests` sends past that test, and so does a server that sends
its history to a joiner. `Rounds(l)` therefore says, while no order waits for a rider, that no
history or wire has a `Push` or `Pop` and that nothing but news of the leader is on its way
to `l` (`Undisturbed`); and that a server which starts beside `l` has no history before it
is connected to it (`Standing`), so that it sends none to the leader.

`ReplicasFollow` compares the tables of a server with what a fold over the lines on a wire
(`Made`) makes of those of the next one. `Made` is a recursive function; `MadeIs` says
that it is the last of the steps that one line after the other makes (`Steps`), and the
induction over these gives `MadeConcat` (lines after others), `MadeTaken` (the line that
is taken has been made first), `MadeAlike` (tables that are alike become alike) and `MadeCalm`
(updates of the queue change nothing that is shared). `Follow(l)` is the invariant:

- each server whose next one is not the leader is `Alike` to it once the wire is empty
  (`Agrees`), which is the property itself, but for all servers that are alive;
- all the servers are each other's peers, or there are only two (`Whole`): so no server is
  the next one of two others (`NextUnique`), nor is sent an update by anybody but
  the one before it (`Passing`, `UpdateFrom`);
- what comes to the leader over the ring is about the queue (`Heeds`), so
  it changes nothing that others would have to know;
- the history of the leader makes of no data its tables, and a server that it has not
  sent it to has no data (`Fresh`). That is why a joiner agrees when it is sent the
  history (`Caught`, `CreateServerPeerFollow`), which is longer than what
  the leader has sent the others;
- an order is of a connected customer and has the price that the customer is known for
  (`Priced`). `DeliveryOfferAccepted` tells the ring of the order only if the customer
  is connected, and with the customer's price in place of the order's: the replicas
  agree for this reason alone.

A handler that sends what it does lets the others follow (`Says`, `AgreesSends`,
`SendsFollow`), so there is one lemma per handler again, and `ClientTurnFollow` for all those of
the clients.

`SurvivorProofs` proves, from the same assumption:

- `SurvivorsCorrect`: `Spec => []SurvivorsAgree`.

`SurvivorInv` has two phases. As long as nothing has happened, the leader reigns, the
replicas follow, and all that is on a wire is an update (`Settled`). From the crash of
the leader `l` on, `Orphans(l)` says what becomes of the updates that were on their way:

- `Bereft(l)`: every survivor counts the others among its peers, and maybe `l`, from
  which nothing comes any more once it does not (`Heir`); it follows `l` or the highest
  survivor, which has then been told by all of them that `l` is gone (`Chief`); only the new
  leader has clients, or panics; and an update is only on a wire to the next
  server of who sent it (`Mail`).
- `Chained(p, l)`, for every survivor `p` that sends to the next survivor, unless that
  one leads: with what is on the wire to it, the next one has the tables of `p`
  (`Behind`), entry by entry (`Keys`, `View`), but for the entries that an update on its
  way to `p` will still change. These updates are on the wires of a set `X` of survivors,
  each of which sends to another of `X` or to `p`, and to nobody that would stop
  the update (`Feeds`).

`X` is needed for one server only, the last before `l` in the ring. When that one turns
to the server after `l`, it is behind it: the servers from there on may have made
updates of `l` that have yet to come round to the last one. `X` are the servers of this
arc. An entry that such an update is about may differ until the update arrives; then
the last one makes it and sends it on, and its next one makes it once more. A takeover ends the
obligation towards the new leader, to which nothing is sent on any more; as it is not
"hasty", no update is then on its way between two of the others, so none is stopped early.
`OrphanStep` has one lemma per action (`TakeOverOrphans`, …); `CrashOrphans` is the step
from one phase to the other, where the leader loses a part of what it had sent. At rest all
the wires are empty, so each survivor but the leader has the entries of the one before it.
The ring is in the order of the ids, so these equalities link all the survivors
(`OneRound`), and all have the same (`RestAgree`). TLC found the invariant true with
three servers, and with four, before it was proved; that is too many states
for a run of the project.

`SetFacts` has what these need of the naturals and of sequences: that a set of
naturals has its `Min` (`MinOfNats`), and a finite one its greatest (`TopOfNats`);
induction over `Nat` in the form of a set (`NatsIn`), which needs no theorem with an
operator parameter; and how many places of a sequence hold a member of a set
(`Count`), when one is appended or taken.

Left to TLC: everything about liveness (`OrderIsAnswered`, `CustomerIsReleased`,
`OnlyOpenElectionsStall`, `ClientsAreTold`, `JoinersLearnLeader`, `IsServedAgain`, the
fairness of `OrderLifecycle`); more than one order per customer for the refinement, where it
does not hold (`AssignedOnlyWhenReady`); the elections of servers that start again,
which rest on who has handled what. Every invariant that a run checks is proved,
but `AtMostOneLeader` only for servers of which nobody starts again.

## 7. Faulty variants

An operator `X_Y` beside an operator `X` is `X` with a plausible mistake. Put
in the place of `X`, it breaks the property in the same row, which shows that
the run would notice such a mistake.

| run | property | variant | the mistake |
|---|---|---|---|
| `OrderFlow_restarts` | `TypeOK` | `NewOrder_StalePrice` | the entry gets the price recorded before this order |
| `OrderFlow_restarts` | `ChargedWasAuthorized` | `PaymentDenied_GoesOn` | a denied order continues |
| `OrderFlow_restarts` | `OneRiderPerOrder`, `AssignmentIsFinal` | `Assignable_Again` | a rider that was chosen is replaced by the next one |
| `OrderFlow_restarts` | `SettledOrderIsGone` | `DeliveryDone_OrderKept` | the delivered order stays until it is paid |
| `OrderFlow_recovery` | `WaitingMeansNoRider` | `HandleRegisterRider_QueueLeft` | the registration of a rider does not drain the queue |
| `OrderFlow_recovery` | `OrderIsAnswered` | `HandleRegisterRestaurant_NotResent` | pending orders are not sent again |
| `OrderFlow_recovery` | `CustomerIsReleased` | `PaymentDenied_Unreported` | the customer is not told of a denial |
| `OrderFlow_recovery` | `ImplementsLifecycle` | `PaymentDenied_GoesOn` | a denied order continues |
| `Election_crashes` | `TypeOK` | `GotLeader_PortAsId` | the port of the leader is taken for its id |
| `Election_crashes` | `AtMostOneLeader` | `Higher_NextOnly` | only the next server is called |
| `Election_crashes` | `HighestTakesOver` | `Higher_Reversed` | lower servers are called |
| `Election_crashes` | `LiveLeaderStays` | `WasLeader_Anyone` | the loss of any peer starts an election |
| `Election_crashes` | `OnlyOpenElectionsStall` | `WasLeader_LastPeer` | only the loss of the last peer does |
| `Election_crashes` | `ClientsAreTold` | `NotifyAllClientsIAmLeader_IfElecting` | only a server that called an election announces itself |
| `Election_restarts` | `AtMostOneLeader` | `Alone_Ignored` | a server leads when it starts |
| `Election_restarts` | `JoinersLearnLeader` | `Alone_Inverted` | a server leads when it starts among others |
| `Ring_replication` | `TypeOK` | `RegisterCustomer_NoPrice` | the update of a customer carries no price |
| `Ring_replication` | `ReplicasFollow` | `OrderCancelled_NotSent` | the cancelled order is removed here only |
| `Ring_replication` | `RoundsEnd` | `GoesOn_Always` | an update is sent on to the leader as well |
| `Ring_replication` | `SurvivorsAgree` | `next_server_peer_NoWrap` | the highest server has no next one |
| `Ring_replication` | `LeaderHasItsRiders` | `RegisterRider_OnlyKnown` | only a rider that is known already is connected |
| `Reconnection_attempts` | `TypeOK` | `NextTry_SameList` | the index of the port is not reset for the next pass |
| `Reconnection_attempts` | `StartsWithALeader` | `After_UnknownEnds` | an answer without a leader ends the attempt |
| `Reconnection_attempts` | `GivesUpOnlyWhenRobbed` | `NextTry_OnePassLess` | there is one pass less |
| `Reconnection_attempts` | `ConnectsToTheLeader` | `AnswerOf_Always` | every server says that it is available |
| `Reconnection_attempts` | `IsServedAgain` | `SetupReconnection_OldSender` | the client keeps its old sender |

## 8. Not modelled

- *Servers that start together.* Whether two of them connect twice, once or not at all
  hangs on which socket is bound before the other's probe comes. Both models of the servers
  start them one at a time.
- *The pool of ports for peers.* A server has one port for each other server and
  uses it once per connection; there is nothing in it to interleave.
- *The distances of `NearbyEntities`.* Sorting by a real-valued distance decides
  who is asked, not what becomes of an order.
- *The elections of servers that start again in the middle of one*, and more than one
  crash with a join: the state space is out of TLC's reach with three servers.
- *Push notifications, coordinates, the logger, the configuration and the
  serialization of messages*: output and I/O on which no decision depends.
- *The whole in one model.* What a failover does to an order under way is split
  between `DataRing` (what the new leader knows) and `ClientReconnection` (who
  reaches it); that the order then goes on is not checked.
