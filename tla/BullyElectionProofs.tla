------------------------ MODULE BullyElectionProofs ------------------------
(***************************************************************************)
(* Theorems about BullyElection: any number of established servers, of     *)
(* which any may crash at any moment, and none starts again (MaxStarts is  *)
(* 1, and each has been started once).                                     *)
(*                                                                         *)
(* Nothing is then left of the exchange by which servers join: Notes,      *)
(* Orders and Calls are the messages, commands and lines that can occur.   *)
(* What makes the leader unique is Elected.  As long as the leader that    *)
(* was established lives nobody speaks of an election (Calm).  From then   *)
(* on a server that leads has outlived all the higher ones (Led), since it *)
(* knows every server that lives (Known), and who is gone does not return. *)
(* Until a second one is gone only the highest that lives can have won an  *)
(* election (Heirs), so that nobody turns from it to another.              *)
(***************************************************************************)
EXTENDS BullyElection, FiniteSetTheorems, TLAPS

Notes(s) ==
    [type : {"PeerDisconnected"},
     id : {p \in Servers \ {s} : state[p] = "down"}]
    \cup [type : {"ElectionCoordinatorReceived"}, id : Servers \ {s}]
    \cup [type : {"InitLeader", "ElectionCall", "NotifyAllClientsIAmLeader"}]

Losses == [type : {"PeerDisconnected"}, id : Servers]

Orders == {"Stop", "ElectionCall", "ElectionCallReceived",
           "ElectionCoordinator", "ElectionCoordinatorReceived"}

Calls == [type : {"ElectionCall", "ElectionCoordinator"}]

Types ==
    /\ state \in [Servers -> {"down", "serving"}]
    /\ joining = [s \in Servers |-> {}]
    /\ mailbox \in [Servers -> Seq(Message)]
    /\ \A s \in Servers : mailbox[s] \in Seq(Notes(s))
    /\ server_peers \in [Servers -> SUBSET Servers]
    /\ leader \in [Servers -> Servers \cup {None}]
    /\ election_in_progress \in [Servers -> BOOLEAN]
    /\ actor \in [Pairs -> {"none", "reading", "finished"}]
    /\ inbox \in [Pairs -> Seq(Orders)]
    /\ timer = [q \in Pairs |-> FALSE]
    /\ wire \in [Pairs -> Seq(Calls)]
    /\ announced \in Servers \cup {None}
    /\ starts = [s \in Servers |-> 1]
    /\ crashes \in Nat

(* Of a dead server nothing is left but what it has sent.                  *)
Buried ==
    \A s \in Servers : state[s] = "down" =>
        /\ mailbox[s] = <<>>
        /\ \A p \in Servers : /\ inbox[<<s, p>>] = <<>>
                               /\ actor[<<s, p>>] = "none"

(* No server has a ServerPeer for itself.                                  *)
Selfless ==
    \A s \in Servers : /\ s \notin server_peers[s] /\ actor[<<s, s>>] = "none"
                       /\ inbox[<<s, s>>] = <<>> /\ wire[<<s, s>>] = <<>>

Known == \A s, t \in Live : s # t => t \in server_peers[s]

Calm ==
    /\ \E l \in Live : \A s \in Live : leader[s] = l
    /\ \A s \in Servers : mailbox[s] \in Seq(Losses)
    /\ \A q \in Pairs : wire[q] = <<>> /\ inbox[q] \in Seq({"Stop"})

Led == \A s \in Live : leader[s] = s =>
           \A t \in Servers : t > s => state[t] = "down"

Elected == Calm \/ Led

ElectInv == Types /\ Buried /\ Selfless /\ Known /\ Elected

(* While at most one server has crashed, only the highest of the others    *)
(* can win an election.                                                    *)
Highest(p) == p \in Live /\ \A t \in Live : t <= p

HeirNotes(s) ==
    {m \in Notes(s) :
        m.type = "ElectionCoordinatorReceived" => Highest(m.id)}

HeirOrders(s, p) ==
    {command \in Orders :
        /\ command = "ElectionCoordinator" => Highest(s)
        /\ command = "ElectionCoordinatorReceived" => Highest(p)}

HeirCalls(s) ==
    {line \in Calls : line.type = "ElectionCoordinator" => Highest(s)}

Heirs ==
    /\ \A s \in Live : leader[s] \in Live => Highest(leader[s])
    /\ \A s \in Servers : mailbox[s] \in Seq(HeirNotes(s))
    /\ \A s, p \in Servers : /\ inbox[<<s, p>>] \in Seq(HeirOrders(s, p))
                             /\ wire[<<s, p>>] \in Seq(HeirCalls(s))

Inherited == crashes <= 1 => Calm \/ (crashes = 1 /\ Heirs)

----------------------------------------------------------------------------
(* What follows from the invariant.                                        *)

LEMMA NotesAreMessages ==
    ASSUME NEW s \in Servers
    PROVE  Notes(s) \subseteq Message
BY DEF Notes, Message

(* The types of a run that nobody joins are types of the module.           *)
LEMMA TypesImply == Types => TypeOK
<1> SUFFICES ASSUME Types PROVE TypeOK
  OBVIOUS
<1>1. Orders \subseteq Command /\ Calls \subseteq Line
  BY DEF Orders, Command, Calls, Line
<1>2. inbox \in [Pairs -> Seq(Command)]
  BY <1>1 DEF Types
<1>3. wire \in [Pairs -> Seq(Line)]
  BY <1>1 DEF Types
<1> QED BY <1>2, <1>3 DEF Types, TypeOK

(* Calm or led, the election has one leader among the living at most.      *)
LEMMA ElectedIsUnique == Types /\ Elected => AtMostOneLeader
<1> SUFFICES ASSUME Types, Elected, NEW s \in Live, NEW t \in Live,
                    leader[s] = s, leader[t] = t
             PROVE  s = t
  BY DEF AtMostOneLeader
<1>1. CASE Calm
  BY <1>1 DEF Calm
<1>2. CASE Led
  <2>1. s \in Nat /\ t \in Nat
    BY ElectionAssumption DEF Live
  <2>2. ~(s > t) /\ ~(t > s)
    BY <1>2 DEF Led, Live
  <2> QED BY <2>1, <2>2
<1> QED BY <1>1, <1>2 DEF Elected

(* The established servers start with nobody dead and nothing under way.   *)
LEMMA ElectInit == Established => ElectInv
<1> SUFFICES ASSUME Established PROVE ElectInv
  OBVIOUS
<1>1. PICK l \in Servers : leader = [s \in Servers |-> l] /\ announced = l
  BY DEF Established
<1>2. Types
  BY <1>1 DEF Established, Types, Pairs
<1>3. Buried
  BY DEF Established, Buried
<1>4. Selfless
  BY DEF Established, Selfless, Pairs
<1>5. Known
  BY DEF Established, Known, Live
<1>6. Calm
  BY <1>1 DEF Established, Calm, Live, Pairs
<1> QED BY <1>2, <1>3, <1>4, <1>5, <1>6 DEF ElectInv, Elected

----------------------------------------------------------------------------
(* Nobody starts or joins any more.                                        *)

LEMMA HeadOfMail ==
    ASSUME Types, NEW s \in Servers, mailbox[s] # <<>>
    PROVE  /\ Head(mailbox[s]) \in Notes(s)
           /\ Tail(mailbox[s]) \in Seq(Notes(s))
BY DEF Types

(* The first command of a ServerPeer, and what is left after it.           *)
LEMMA HeadOfInbox ==
    ASSUME Types, NEW q \in Pairs, inbox[q] # <<>>
    PROVE  /\ Head(inbox[q]) \in Orders
           /\ Tail(inbox[q]) \in Seq(Orders)
BY DEF Types

(* Every server has used its one start: none starts, connects or is served.*)
LEMMA NobodyJoins ==
    ASSUME Types, MaxStarts = 1, NEW s \in Servers
    PROVE  ~Start(s) /\ ~ConnectServerPeer(s) /\ ~Serve(s)
<1>1. starts[s] = 1 /\ joining[s] = {} /\ state[s] # "joining"
  BY DEF Types
<1>2. ~Start(s)
  BY <1>1 DEF Start
<1>3. ~ConnectServerPeer(s)
  BY <1>1 DEF ConnectServerPeer
<1>4. ~Serve(s)
  BY <1>1 DEF Serve
<1> QED BY <1>2, <1>3, <1>4

(* The ConnectionManager finds no question about the leader in its mailbox.*)
LEMMA NobodyAsks ==
    ASSUME Types, NEW s \in Servers
    PROVE  ~RegisterPeerServer(s) /\ ~LeaderQuery(s) /\ ~GetLeaderInfo(s)
<1>1. mailbox[s] # <<>> =>
          Head(mailbox[s]).type \notin {"RegisterPeerServer", "LeaderQuery",
                                       "GetLeaderInfo", "GotLeaderFromPeer"}
  BY HeadOfMail DEF Notes
<1> QED BY <1>1 DEF RegisterPeerServer, LeaderQuery, GetLeaderInfo, Received

(* No ServerPeer is to ask for, or to answer with, the leader.             *)
LEMMA NoPeerAsks ==
    ASSUME Types, NEW s \in Servers, NEW p \in Servers
    PROVE  ~StartPeer(s, p) /\ ~GotLeaderTimer(s, p) /\ ~AskLeader(s, p)
<1>1. <<s, p>> \in Pairs /\ ~timer[<<s, p>>]
  BY DEF Types, Pairs
<1>2. inbox[<<s, p>>] # <<>> =>
          Head(inbox[<<s, p>>]) \notin {"Start", "SendLeader",
                                       "GotLeaderOrCallElection"}
  BY <1>1, HeadOfInbox DEF Orders
<1> QED BY <1>1, <1>2 DEF StartPeer, GotLeaderTimer, AskLeader, NextIs

----------------------------------------------------------------------------
(* What a step keeps when it changes only the mail of one live server.     *)

LEMMA MailStep ==
    ASSUME Types, state' = state, NEW s \in Servers,
           NEW ms \in Seq(Notes(s)), mailbox' = [mailbox EXCEPT ![s] = ms]
    PROVE  /\ mailbox' \in [Servers -> Seq(Message)]
           /\ \A t \in Servers : mailbox'[t] \in Seq(Notes(t)')
<1>1. ms \in Seq(Message)
  BY NotesAreMessages
<1>2. mailbox' \in [Servers -> Seq(Message)]
  BY <1>1 DEF Types
<1>3. \A t \in Servers : Notes(t)' = Notes(t)
  BY DEF Notes
<1>4. \A t \in Servers : mailbox'[t] \in Seq(Notes(t))
  BY DEF Types
<1> QED BY <1>2, <1>3, <1>4

(* Orders given to some peers of s: the mailboxes of the others are the    *)
(* same.                                                                   *)
LEMMA CommandedType ==
    ASSUME Types, NEW s \in Servers, NEW ps, NEW command \in Orders
    PROVE  /\ Commanded(s, ps, command) \in [Pairs -> Seq(Orders)]
           /\ \A q \in Pairs : q[1] # s \/ q[2] \notin ps =>
                   Commanded(s, ps, command)[q] = inbox[q]
<1>1. \A q \in Pairs : /\ inbox[q] \in Seq(Orders)
                       /\ Append(inbox[q], command) \in Seq(Orders)
  BY DEF Types
<1> QED BY <1>1 DEF Commanded

(* Writing to a dead server is no different from not writing.              *)
LEMMA WrittenType ==
    ASSUME Types, NEW s \in Servers, NEW p \in Servers, NEW line \in Calls
    PROVE  /\ Written(s, p, line) \in [Pairs -> Seq(Calls)]
           /\ \A q \in Pairs : q # <<s, p>> =>
                   Written(s, p, line)[q] = wire[q]
<1>1. <<s, p>> \in Pairs /\ wire \in [Pairs -> Seq(Calls)]
  BY DEF Types, Pairs
<1>2. Append(wire[<<s, p>>], line) \in Seq(Calls)
  BY <1>1
<1> QED BY <1>1, <1>2 DEF Written

(* With the same servers up, what is known of them stays true.             *)
LEMMA SameWorld ==
    ASSUME state' = state
    PROVE  /\ Known /\ server_peers' = server_peers => Known'
           /\ Led /\ leader' = leader => Led'
BY DEF Known, Led, Live

(* In the steps of s and of its ServerPeers, s is alive.                   *)
LEMMA BuriedStep ==
    ASSUME Types, Buried, state' = state, NEW s \in Servers, state[s] # "down",
           \A t \in Servers \ {s} :
               /\ mailbox'[t] = mailbox[t]
               /\ \A p \in Servers : /\ inbox'[<<t, p>>] = inbox[<<t, p>>]
                                      /\ actor'[<<t, p>>] = actor[<<t, p>>]
    PROVE  Buried'
BY DEF Buried

----------------------------------------------------------------------------
(* The steps of the ServerPeer of s for p.                                 *)

(* A server whose ServerPeer has something to do is alive, and the         *)
(* ServerPeer is not one for itself.                                       *)
LEMMA PeerIsAlive ==
    ASSUME Types, Buried, Selfless, NEW s \in Servers, NEW p \in Servers,
           inbox[<<s, p>>] # <<>> \/ actor[<<s, p>>] = "reading"
    PROVE  state[s] = "serving" /\ s # p /\ <<s, p>> \in Pairs
BY DEF Types, Buried, Selfless, Pairs

(* While the leader lives there is nothing for a ServerPeer but to stop.   *)
LEMMA CalmInbox ==
    ASSUME Calm, NEW s \in Servers, NEW p \in Servers, NEW command,
           NextIs(s, p, command)
    PROVE  command = "Stop"
<1>1. <<s, p>> \in Pairs
  BY DEF Pairs
<1>2. inbox[<<s, p>>] \in Seq({"Stop"}) /\ inbox[<<s, p>>] # <<>>
  BY <1>1 DEF Calm, NextIs
<1> QED BY <1>2 DEF NextIs

(* A ServerPeer writes the call or the announcement it was ordered to      *)
(* write.                                                                  *)
LEMMA SendLineStep ==
    ASSUME ElectInv, NEW s \in Servers, NEW p \in Servers, SendLine(s, p)
    PROVE  ElectInv'
<1> DEFINE q == <<s, p>>
<1>1. PICK command \in {"ElectionCall", "ElectionCoordinator"} :
          /\ NextIs(s, p, command)
          /\ Handled(s, p)
          /\ wire' = Written(s, p, [type |-> command])
          /\ UNCHANGED <<processVars, mailbox, managerVars, actor, timer,
                         announced>>
  <2>1. q \in Pairs
    BY DEF Pairs
  <2>2. ~NextIs(s, p, "LeaderQuery")
    BY <2>1, HeadOfInbox DEF ElectInv, NextIs, Orders
  <2> QED BY <2>2 DEF SendLine
<1>2. state[s] = "serving" /\ s # p /\ q \in Pairs /\ inbox[q] # <<>>
  BY <1>1, PeerIsAlive DEF ElectInv, NextIs
<1>3. inbox' = [inbox EXCEPT ![q] = Tail(@)] /\ Tail(inbox[q]) \in Seq(Orders)
  BY <1>1, <1>2, HeadOfInbox DEF ElectInv, Handled
<1>4. [type |-> command] \in Calls
  BY DEF Calls
<1>5. /\ wire' \in [Pairs -> Seq(Calls)]
      /\ \A r \in Pairs : r # q => wire'[r] = wire[r]
  BY <1>1, <1>4, WrittenType DEF ElectInv
<1>6. /\ state' = state /\ joining' = joining /\ mailbox' = mailbox
      /\ server_peers' = server_peers /\ leader' = leader
      /\ election_in_progress' = election_in_progress /\ actor' = actor
      /\ timer' = timer /\ announced' = announced /\ starts' = starts
      /\ crashes' = crashes
  BY <1>1 DEF processVars, managerVars, bounds
<1>7. Types'
  <2>1. inbox' \in [Pairs -> Seq(Orders)]
    BY <1>3 DEF ElectInv, Types
  <2>2. \A t \in Servers : Notes(t)' = Notes(t)
    BY <1>6 DEF Notes
  <2> QED BY <1>5, <1>6, <2>1, <2>2 DEF ElectInv, Types
<1>8. Buried'
  <2>1. \A t \in Servers \ {s}, r \in Servers :
            inbox'[<<t, r>>] = inbox[<<t, r>>]
    BY <1>3 DEF ElectInv, Types, Pairs
  <2> QED BY <1>2, <1>6, <2>1, BuriedStep DEF ElectInv
<1>9. Selfless'
  BY <1>2, <1>3, <1>5, <1>6 DEF ElectInv, Types, Selfless, Pairs
<1>10. Known'
  BY <1>6, SameWorld DEF ElectInv
<1>11. Elected'
  <2>1. ~Calm
    BY <1>1, CalmInbox
  <2> QED BY <2>1, <1>6, SameWorld DEF ElectInv, Elected
<1> QED BY <1>7, <1>8, <1>9, <1>10, <1>11 DEF ElectInv

(* The ServerPeer tells the manager of the call or of the coordinator.     *)
LEMMA ReceivedStep ==
    ASSUME ElectInv, NEW s \in Servers, NEW p \in Servers,
           ElectionCallReceived(s, p) \/ ElectionCoordinatorReceived(s, p)
    PROVE  ElectInv'
<1> DEFINE q == <<s, p>>
<1>1. PICK command \in Orders \ {"Stop"}, m \in Message :
          /\ \/ m = [type |-> "ElectionCall"]
             \/ m = [type |-> "ElectionCoordinatorReceived", id |-> p]
          /\ NextIs(s, p, command)
          /\ Handled(s, p)
          /\ Told(s, <<m>>)
          /\ UNCHANGED <<processVars, managerVars, actor, timer, wire,
                         announced>>
  <2>1. CASE ElectionCallReceived(s, p)
    BY <2>1 DEF ElectionCallReceived, Orders, Message
  <2>2. CASE ElectionCoordinatorReceived(s, p)
    BY <2>2 DEF ElectionCoordinatorReceived, Orders, Message
  <2> QED BY <2>1, <2>2
<1>2. state[s] = "serving" /\ s # p /\ q \in Pairs /\ inbox[q] # <<>>
  BY <1>1, PeerIsAlive DEF ElectInv, NextIs
<1>3. inbox' = [inbox EXCEPT ![q] = Tail(@)] /\ Tail(inbox[q]) \in Seq(Orders)
  BY <1>1, <1>2, HeadOfInbox DEF ElectInv, Handled
<1>4. /\ mailbox' = [mailbox EXCEPT ![s] = mailbox[s] \o <<m>>]
      /\ mailbox[s] \o <<m>> \in Seq(Notes(s))
  <2>1. m \in Notes(s)
    BY <1>1, <1>2 DEF Notes
  <2> QED BY <1>1, <2>1 DEF Told, ElectInv, Types
<1>5. /\ state' = state /\ joining' = joining /\ wire' = wire
      /\ server_peers' = server_peers /\ leader' = leader
      /\ election_in_progress' = election_in_progress /\ actor' = actor
      /\ timer' = timer /\ announced' = announced /\ starts' = starts
      /\ crashes' = crashes
  BY <1>1 DEF processVars, managerVars, bounds
<1>6. Types'
  <2>1. inbox' \in [Pairs -> Seq(Orders)]
    BY <1>3 DEF ElectInv, Types
  <2>2. /\ mailbox' \in [Servers -> Seq(Message)]
        /\ \A t \in Servers : mailbox'[t] \in Seq(Notes(t)')
    BY <1>4, <1>5, MailStep DEF ElectInv
  <2> QED BY <1>5, <2>1, <2>2 DEF ElectInv, Types
<1>7. Buried'
  <2>1. \A t \in Servers \ {s} :
            /\ mailbox'[t] = mailbox[t]
            /\ \A r \in Servers : inbox'[<<t, r>>] = inbox[<<t, r>>]
    BY <1>3, <1>4 DEF ElectInv, Types, Pairs
  <2> QED BY <1>2, <1>5, <2>1, BuriedStep DEF ElectInv
<1>8. Selfless'
  BY <1>2, <1>3, <1>5 DEF ElectInv, Types, Selfless, Pairs
<1>9. Known'
  BY <1>5, SameWorld DEF ElectInv
<1>10. Elected'
  <2>1. ~Calm
    BY <1>1, CalmInbox
  <2> QED BY <2>1, <1>5, SameWorld DEF ElectInv, Elected
<1> QED BY <1>6, <1>7, <1>8, <1>9, <1>10 DEF ElectInv

LEMMA StopPeerCalm ==
    ASSUME ElectInv, Calm, NEW s \in Servers, NEW p \in Servers,
           StopPeer(s, p)
    PROVE  Calm'
<1>1. inbox' = [inbox EXCEPT ![<<s, p>>] = <<>>]
  BY DEF StopPeer
<1>2. \A r \in Pairs : inbox'[r] \in Seq({"Stop"})
  BY <1>1 DEF Calm, ElectInv, Types
<1> QED BY <1>2 DEF StopPeer, processVars, managerVars, Calm, Live

(* A ServerPeer stops, and what was in its mailbox is lost with it.        *)
LEMMA StopPeerStep ==
    ASSUME ElectInv, NEW s \in Servers, NEW p \in Servers, StopPeer(s, p)
    PROVE  ElectInv'
<1> DEFINE q == <<s, p>>
<1>1. state[s] = "serving" /\ s # p /\ q \in Pairs
  BY PeerIsAlive DEF ElectInv, StopPeer, NextIs
<1>2. /\ inbox' = [inbox EXCEPT ![q] = <<>>]
      /\ actor' = [actor EXCEPT ![q] = "none"]
      /\ timer' = [timer EXCEPT ![q] = FALSE]
  BY DEF StopPeer
<1>3. /\ state' = state /\ joining' = joining /\ wire' = wire
      /\ server_peers' = server_peers /\ leader' = leader
      /\ election_in_progress' = election_in_progress /\ mailbox' = mailbox
      /\ announced' = announced /\ starts' = starts /\ crashes' = crashes
  BY DEF StopPeer, processVars, managerVars, bounds
<1>4. Types'
  <2>1. inbox' \in [Pairs -> Seq(Orders)]
    <3>1. <<>> \in Seq(Orders)
      OBVIOUS
    <3> QED BY <1>2, <3>1 DEF ElectInv, Types
  <2>2. \A t \in Servers : Notes(t)' = Notes(t)
    BY <1>3 DEF Notes
  <2>3. timer' = [r \in Pairs |-> FALSE]
    BY <1>2 DEF ElectInv, Types
  <2>4. actor' \in [Pairs -> {"none", "reading", "finished"}]
    BY <1>2 DEF ElectInv, Types
  <2> QED BY <1>3, <2>1, <2>2, <2>3, <2>4 DEF ElectInv, Types
<1>5. Buried'
  <2>1. \A t \in Servers \ {s}, r \in Servers :
            /\ inbox'[<<t, r>>] = inbox[<<t, r>>]
            /\ actor'[<<t, r>>] = actor[<<t, r>>]
    BY <1>2 DEF ElectInv, Types, Pairs
  <2> QED BY <1>1, <1>3, <2>1, BuriedStep DEF ElectInv
<1>6. Selfless'
  BY <1>1, <1>2, <1>3 DEF ElectInv, Types, Selfless, Pairs
<1>7. Known'
  BY <1>3, SameWorld DEF ElectInv
<1>8. Elected'
  <2>1. CASE Calm
    BY <2>1, StopPeerCalm DEF Elected
  <2>2. CASE Led
    BY <1>3, <2>2, SameWorld DEF Elected
  <2> QED BY <2>1, <2>2 DEF ElectInv, Elected
<1> QED BY <1>4, <1>5, <1>6, <1>7, <1>8 DEF ElectInv

(* Reading the stream: every line is a call, so each becomes a note of the *)
(* ServerPeer to itself, and the manager hears only of the stream's end.   *)
LEMMA LinesRead ==
    ASSUME ElectInv, NEW s \in Servers, NEW p \in Servers,
           DispatchMessages(s, p)
    PROVE  \E notes \in Seq(Orders), finished \in BOOLEAN :
               /\ finished => state[p] = "down"
               /\ wire[<<p, s>>] = <<>> => notes = <<>>
               /\ \A i \in 1 .. Len(notes) :
                      \E j \in 1 .. Len(wire[<<p, s>>]) :
                          notes[i] = NoteOf(wire[<<p, s>>][j])
               /\ inbox' = [inbox EXCEPT ![<<s, p>>] = notes]
               /\ \E n \in 0 .. Len(wire[<<p, s>>]) :
                      wire' = [wire EXCEPT ![<<p, s>>] =
                                   SubSeq(@, n + 1, Len(@))]
               /\ mailbox' = [mailbox EXCEPT ![s] = @ \o
                      IF finished
                      THEN <<[type |-> "PeerDisconnected", id |-> p]>>
                      ELSE <<>>]
               /\ actor' = IF finished
                           THEN [actor EXCEPT ![<<s, p>>] = "finished"]
                           ELSE actor
<1> DEFINE line == wire[<<p, s>>]
           areData(n) == {i \in 1 .. n : line[i].type = "LeaderData"}
           Notice(finished) ==
               IF finished THEN <<[type |-> "PeerDisconnected", id |-> p]>>
                           ELSE <<>>
           Answers(data) == [i \in DOMAIN data |->
                                [type |-> "GotLeaderFromPeer",
                                 id |-> line[data[i]].leader]]
<1>1. line \in Seq(Calls)
  BY DEF ElectInv, Types, Pairs
<1>2. PICK n \in 0 .. Len(line), finished \in BOOLEAN :
          /\ finished => state[p] = "down" /\ n = Len(line)
          /\ wire' = [wire EXCEPT ![<<p, s>>] = SubSeq(@, n + 1, Len(@))]
          /\ \E other \in Listings(1 .. n \ areData(n)) :
                inbox' = [inbox EXCEPT ![<<s, p>>] =
                    [i \in DOMAIN other |-> NoteOf(line[other[i]])]]
          /\ \E data \in Listings(areData(n)) :
                Told(s, Answers(data) \o Notice(finished))
          /\ actor' = IF finished
                      THEN [actor EXCEPT ![<<s, p>>] = "finished"]
                      ELSE actor
  BY DEF DispatchMessages
<1>3. n \in Nat /\ areData(n) = {} /\ 1 .. n \ areData(n) = 1 .. n
  <2>1. n \in Nat /\ \A i \in 1 .. n : line[i] \in Calls
    BY <1>1, <1>2
  <2>2. \A call \in Calls : call.type # "LeaderData"
    BY DEF Calls
  <2> QED BY <2>1, <2>2
<1>4. PICK other \in Listings(1 .. n) :
          inbox' = [inbox EXCEPT ![<<s, p>>] =
              [i \in DOMAIN other |-> NoteOf(line[other[i]])]]
  BY <1>2, <1>3
<1>5. other \in [1 .. n -> 1 .. n]
  <2>1. Cardinality(1 .. n) = n
    BY <1>3, FS_Interval
  <2> QED BY <1>4, <2>1 DEF Listings
<1> DEFINE notes == [i \in DOMAIN other |-> NoteOf(line[other[i]])]
<1>6. /\ notes \in Seq(Orders) /\ (line = <<>> => notes = <<>>)
      /\ \A i \in 1 .. Len(notes) :
             \E j \in 1 .. Len(line) : notes[i] = NoteOf(line[j])
  <2>1. \A i \in 1 .. n : line[other[i]] \in Calls
    BY <1>1, <1>2, <1>5
  <2>2. \A call \in Calls : NoteOf(call) \in Orders
    BY DEF Calls, NoteOf, Orders
  <2>3. notes = [i \in 1 .. n |-> NoteOf(line[other[i]])]
    BY <1>5
  <2>4. notes \in Seq(Orders)
    BY <1>3, <2>1, <2>2, <2>3
  <2>5. line = <<>> => n = 0
    BY <1>2
  <2>6. n = 0 => notes = <<>>
    BY <1>3, <2>3
  <2>7. \A i \in 1 .. Len(notes) : notes[i] = NoteOf(line[other[i]])
    BY <1>3, <2>3
  <2>8. \A i \in 1 .. Len(notes) : other[i] \in 1 .. Len(line)
    BY <1>2, <1>3, <1>5, <2>3
  <2> QED BY <2>4, <2>5, <2>6, <2>7, <2>8
<1>7. PICK data \in Listings({}) : Told(s, Answers(data) \o Notice(finished))
  BY <1>2, <1>3
<1>8. Answers(data) \o Notice(finished) = Notice(finished)
  <2>1. DOMAIN data = {}
    BY <1>7, FS_EmptySet DEF Listings
  <2>2. Answers(data) = <<>>
    BY <2>1
  <2>3. Notice(finished) \in Seq(Message)
    <3>1. [type |-> "PeerDisconnected", id |-> p] \in Message
      BY DEF Message
    <3> QED BY <3>1
  <2> HIDE DEF Notice, Answers
  <2> QED BY <2>2, <2>3
<1>9. mailbox' = [mailbox EXCEPT ![s] = @ \o Notice(finished)]
  BY <1>7, <1>8 DEF Told
<1> QED BY <1>2, <1>4, <1>6, <1>9

(* While the leader lives there are no lines to read, but ends of streams. *)
LEMMA DispatchMessagesCalm ==
    ASSUME ElectInv, Calm, NEW s \in Servers, NEW p \in Servers,
           DispatchMessages(s, p)
    PROVE  Calm'
<1>1. <<s, p>> \in Pairs /\ <<p, s>> \in Pairs
  BY DEF Pairs
<1>2. PICK notes \in Seq(Orders), finished \in BOOLEAN,
           n \in 0 .. Len(wire[<<p, s>>]) :
          /\ wire[<<p, s>>] = <<>> => notes = <<>>
          /\ inbox' = [inbox EXCEPT ![<<s, p>>] = notes]
          /\ wire' = [wire EXCEPT ![<<p, s>>] = SubSeq(@, n + 1, Len(@))]
          /\ mailbox' = [mailbox EXCEPT ![s] = @ \o
                 IF finished
                 THEN <<[type |-> "PeerDisconnected", id |-> p]>>
                 ELSE <<>>]
  BY LinesRead
<1>3. \A r \in Pairs : wire'[r] = <<>>
  BY <1>1, <1>2 DEF Calm, ElectInv, Types
<1>4. \A r \in Pairs : inbox'[r] \in Seq({"Stop"})
  BY <1>1, <1>2 DEF Calm, ElectInv, Types
<1>5. \A t \in Servers : mailbox'[t] \in Seq(Losses)
  <2> DEFINE notice == IF finished
                       THEN <<[type |-> "PeerDisconnected", id |-> p]>>
                       ELSE <<>>
  <2>1. [type |-> "PeerDisconnected", id |-> p] \in Losses
    BY DEF Losses
  <2>2. notice \in Seq(Losses)
    BY <2>1
  <2>3. mailbox' = [mailbox EXCEPT ![s] = mailbox[s] \o notice]
    BY <1>2 DEF ElectInv, Types
  <2> HIDE DEF notice
  <2>4. mailbox[s] \o notice \in Seq(Losses)
    BY <2>2 DEF Calm
  <2> QED BY <2>3, <2>4 DEF Calm, ElectInv, Types
<1> QED BY <1>3, <1>4, <1>5 DEF DispatchMessages, managerVars, Calm, Live

(* A ServerPeer reads lines, and at the end of a dead peer's reports it    *)
(* gone.                                                                   *)
LEMMA DispatchMessagesStep ==
    ASSUME ElectInv, NEW s \in Servers, NEW p \in Servers,
           DispatchMessages(s, p)
    PROVE  ElectInv'
<1>1. /\ state[s] = "serving" /\ s # p
      /\ <<s, p>> \in Pairs /\ <<p, s>> \in Pairs
  BY PeerIsAlive DEF ElectInv, DispatchMessages, Pairs
<1>2. PICK notes \in Seq(Orders), finished \in BOOLEAN,
           n \in 0 .. Len(wire[<<p, s>>]) :
          /\ finished => state[p] = "down"
          /\ inbox' = [inbox EXCEPT ![<<s, p>>] = notes]
          /\ wire' = [wire EXCEPT ![<<p, s>>] = SubSeq(@, n + 1, Len(@))]
          /\ mailbox' = [mailbox EXCEPT ![s] = @ \o
                 IF finished
                 THEN <<[type |-> "PeerDisconnected", id |-> p]>>
                 ELSE <<>>]
          /\ actor' = IF finished
                      THEN [actor EXCEPT ![<<s, p>>] = "finished"]
                      ELSE actor
  BY LinesRead
<1> DEFINE notice == IF finished
                     THEN <<[type |-> "PeerDisconnected", id |-> p]>>
                     ELSE <<>>
<1>3. /\ state' = state /\ joining' = joining /\ timer' = timer
      /\ server_peers' = server_peers /\ leader' = leader
      /\ election_in_progress' = election_in_progress
      /\ announced' = announced /\ starts' = starts /\ crashes' = crashes
  BY DEF DispatchMessages, managerVars, bounds
<1>4. /\ wire' \in [Pairs -> Seq(Calls)]
      /\ \A r \in Pairs : r # <<p, s>> => wire'[r] = wire[r]
  <2>1. wire \in [Pairs -> Seq(Calls)]
    BY DEF ElectInv, Types
  <2>2. wire[<<p, s>>] \in Seq(Calls) /\ n \in Nat
    BY <1>1, <1>2, <2>1
  <2>3. SubSeq(wire[<<p, s>>], n + 1, Len(wire[<<p, s>>])) \in Seq(Calls)
    BY <2>2
  <2> QED BY <1>1, <1>2, <2>1, <2>3
<1>5. /\ mailbox' = [mailbox EXCEPT ![s] = mailbox[s] \o notice]
      /\ mailbox[s] \o notice \in Seq(Notes(s))
  <2>1. finished => [type |-> "PeerDisconnected", id |-> p] \in Notes(s)
    BY <1>1, <1>2 DEF Notes
  <2>2. notice \in Seq(Notes(s))
    BY <2>1
  <2>3. mailbox[s] \in Seq(Notes(s))
    BY DEF ElectInv, Types
  <2>4. mailbox' = [mailbox EXCEPT ![s] = mailbox[s] \o notice]
    BY <1>2 DEF ElectInv, Types
  <2> HIDE DEF notice
  <2> QED BY <2>2, <2>3, <2>4
<1> HIDE DEF notice
<1>6. inbox' \in [Pairs -> Seq(Orders)]
  BY <1>1, <1>2 DEF ElectInv, Types
<1>7. Types'
  <2>1. /\ mailbox' \in [Servers -> Seq(Message)]
        /\ \A t \in Servers : mailbox'[t] \in Seq(Notes(t)')
    BY <1>3, <1>5, MailStep DEF ElectInv
  <2>2. actor' \in [Pairs -> {"none", "reading", "finished"}]
    BY <1>2 DEF ElectInv, Types
  <2> QED BY <1>3, <1>4, <1>6, <2>1, <2>2 DEF ElectInv, Types
<1>8. Buried'
  <2>1. \A t \in Servers \ {s} :
            /\ mailbox'[t] = mailbox[t]
            /\ \A r \in Servers : /\ inbox'[<<t, r>>] = inbox[<<t, r>>]
                                  /\ actor'[<<t, r>>] = actor[<<t, r>>]
    BY <1>2, <1>5 DEF ElectInv, Types, Pairs
  <2> QED BY <1>1, <1>3, <2>1, BuriedStep DEF ElectInv
<1>9. Selfless'
  <2>1. \A t \in Servers : <<t, t>> \in Pairs /\ <<t, t>> # <<s, p>>
                                              /\ <<t, t>> # <<p, s>>
    BY <1>1 DEF Pairs
  <2> QED BY <1>2, <1>3, <1>4, <2>1 DEF ElectInv, Types, Selfless
<1>10. Known'
  BY <1>3, SameWorld DEF ElectInv
<1>11. Elected'
  <2>1. CASE Calm
    BY <2>1, DispatchMessagesCalm DEF Elected
  <2>2. CASE Led
    BY <1>3, <2>2, SameWorld DEF Elected
  <2> QED BY <2>1, <2>2 DEF ElectInv, Elected
<1> QED BY <1>7, <1>8, <1>9, <1>10, <1>11 DEF ElectInv

----------------------------------------------------------------------------
(* The steps of the manager of s.                                          *)

LEMMA ManagerIsAlive ==
    ASSUME Types, Buried, NEW s \in Servers, mailbox[s] # <<>>
    PROVE  state[s] = "serving" /\ s \in Live
BY DEF Types, Buried, Live

(* While the leader lives a manager hears of nothing but losses.           *)
LEMMA CalmMail ==
    ASSUME Calm, NEW s \in Servers, mailbox[s] # <<>>
    PROVE  /\ Head(mailbox[s]).type = "PeerDisconnected"
           /\ Tail(mailbox[s]) \in Seq(Losses)
<1>1. mailbox[s] \in Seq(Losses)
  BY DEF Calm
<1>2. Head(mailbox[s]) \in Losses /\ Tail(mailbox[s]) \in Seq(Losses)
  BY <1>1
<1> QED BY <1>2 DEF Losses

(* A message of s takes the first place of the mailbox, and may command    *)
(* the ServerPeers of s.                                                   *)
LEMMA ManagerStep ==
    ASSUME ElectInv, NEW s \in Servers, mailbox[s] # <<>>,
           NEW ms \in Seq(Notes(s)),
           mailbox' = [mailbox EXCEPT ![s] = ms],
           UNCHANGED <<processVars, actor, timer, wire>>,
           inbox' \in [Pairs -> Seq(Orders)],
           \A q \in Pairs : q[1] # s \/ q[2] = s => inbox'[q] = inbox[q],
           server_peers' \in [Servers -> SUBSET Servers],
           \A t \in Servers : server_peers'[t] \subseteq server_peers[t],
           leader' \in [Servers -> Servers \cup {None}],
           election_in_progress' \in [Servers -> BOOLEAN],
           announced' \in Servers \cup {None}
    PROVE  Types' /\ Buried' /\ Selfless'
<1>1. state[s] = "serving"
  BY ManagerIsAlive DEF ElectInv
<1>2. /\ state' = state /\ joining' = joining /\ timer' = timer
      /\ actor' = actor /\ wire' = wire /\ starts' = starts
      /\ crashes' = crashes
  BY DEF processVars, bounds
<1>3. Types'
  <2>1. /\ mailbox' \in [Servers -> Seq(Message)]
        /\ \A t \in Servers : mailbox'[t] \in Seq(Notes(t)')
    BY <1>2, MailStep DEF ElectInv
  <2> QED BY <1>2, <2>1 DEF ElectInv, Types
<1>4. Buried'
  <2>1. \A t \in Servers \ {s} :
            /\ mailbox'[t] = mailbox[t]
            /\ \A r \in Servers : inbox'[<<t, r>>] = inbox[<<t, r>>]
    BY DEF ElectInv, Types, Pairs
  <2> QED BY <1>1, <1>2, <2>1, BuriedStep DEF ElectInv
<1>5. Selfless'
  <2>1. \A t \in Servers : inbox'[<<t, t>>] = inbox[<<t, t>>]
    BY DEF Pairs
  <2> QED BY <1>2, <2>1 DEF ElectInv, Selfless
<1> QED BY <1>3, <1>4, <1>5

(* InitLeader: a server with no peer leads.                                *)
LEMMA InitLeaderStep ==
    ASSUME ElectInv, NEW s \in Servers, InitLeader(s)
    PROVE  ElectInv'
<1>1. /\ mailbox[s] # <<>> /\ Head(mailbox[s]).type = "InitLeader"
      /\ leader' = IF Alone(s) THEN [leader EXCEPT ![s] = s] ELSE leader
      /\ UNCHANGED <<processVars, actor, timer, wire>>
      /\ server_peers' = server_peers /\ inbox' = inbox
      /\ election_in_progress' = election_in_progress
      /\ announced' = announced /\ state' = state
  BY DEF InitLeader, Received, peerVars, processVars
<1>2. Tail(mailbox[s]) \in Seq(Notes(s))
  BY <1>1, HeadOfMail DEF ElectInv
<1>3. mailbox' = [mailbox EXCEPT ![s] = Tail(mailbox[s])]
  <2>1. Tail(mailbox[s]) \o <<>> = Tail(mailbox[s])
    BY <1>2
  <2> QED BY <2>1 DEF InitLeader, Done, ElectInv, Types
<1>4. leader' \in [Servers -> Servers \cup {None}]
  BY <1>1 DEF ElectInv, Types
<1>5. Types' /\ Buried' /\ Selfless'
  <2>1. /\ inbox' \in [Pairs -> Seq(Orders)]
        /\ server_peers' \in [Servers -> SUBSET Servers]
        /\ election_in_progress' \in [Servers -> BOOLEAN]
        /\ announced' \in Servers \cup {None}
    BY <1>1 DEF ElectInv, Types
  <2> QED BY <1>1, <1>2, <1>3, <1>4, <2>1, ManagerStep
<1>6. Known'
  BY <1>1, SameWorld DEF ElectInv
<1>7. Led'
  <2>1. ~Calm
    BY <1>1, CalmMail
  <2>2. Led
    BY <2>1 DEF ElectInv, Elected
  <2>3. CASE ~Alone(s)
    BY <1>1, <2>2, <2>3, SameWorld
  <2>4. CASE Alone(s)
    <3>1. s \in Live /\ Live' = Live
      BY <1>1, ManagerIsAlive DEF ElectInv, Live
    <3>2. Live \subseteq {s}
      BY <2>4, <3>1 DEF ElectInv, Known, Alone
    <3>3. \A t \in Servers : t > s => state[t] = "down"
      BY <3>2, ElectionAssumption DEF Live
    <3> QED BY <1>1, <2>2, <3>1, <3>2, <3>3 DEF Led
  <2> QED BY <2>3, <2>4
<1> QED BY <1>5, <1>6, <1>7 DEF ElectInv, Elected

(* NotifyAllClientsIAmLeader: the clients hear of the new leader.          *)
LEMMA NotifyStep ==
    ASSUME ElectInv, NEW s \in Servers, NotifyAllClientsIAmLeader(s)
    PROVE  ElectInv'
<1>1. /\ mailbox[s] # <<>>
      /\ Head(mailbox[s]).type = "NotifyAllClientsIAmLeader"
      /\ UNCHANGED <<processVars, actor, timer, wire>>
      /\ server_peers' = server_peers /\ inbox' = inbox
      /\ election_in_progress' = election_in_progress
      /\ announced' = s /\ state' = state /\ leader' = leader
  BY DEF NotifyAllClientsIAmLeader, Received, managerVars, peerVars,
         processVars
<1>2. Tail(mailbox[s]) \in Seq(Notes(s))
  BY <1>1, HeadOfMail DEF ElectInv
<1>3. mailbox' = [mailbox EXCEPT ![s] = Tail(mailbox[s])]
  <2>1. Tail(mailbox[s]) \o <<>> = Tail(mailbox[s])
    BY <1>2
  <2> QED BY <2>1 DEF NotifyAllClientsIAmLeader, Done, ElectInv, Types
<1>4. Types' /\ Buried' /\ Selfless'
  <2>1. /\ inbox' \in [Pairs -> Seq(Orders)]
        /\ server_peers' \in [Servers -> SUBSET Servers]
        /\ leader' \in [Servers -> Servers \cup {None}]
        /\ election_in_progress' \in [Servers -> BOOLEAN]
    BY <1>1 DEF ElectInv, Types
  <2> QED BY <1>1, <1>2, <1>3, <2>1, ManagerStep
<1>5. Known' /\ Led'
  <2>1. ~Calm
    BY <1>1, CalmMail
  <2> QED BY <1>1, <2>1, SameWorld DEF ElectInv, Elected
<1> QED BY <1>4, <1>5 DEF ElectInv, Elected

(* The coordinator that s hears of is never s itself.                      *)
LEMMA GotLeaderStep ==
    ASSUME ElectInv, NEW s \in Servers, GotLeader(s)
    PROVE  ElectInv'
<1> DEFINE l == Head(mailbox[s]).id
<1>1. /\ mailbox[s] # <<>>
      /\ Head(mailbox[s]).type \in {"GotLeaderFromPeer",
                                    "ElectionCoordinatorReceived"}
      /\ leader' = [leader EXCEPT ![s] = l]
      /\ election_in_progress' = [election_in_progress EXCEPT ![s] = FALSE]
      /\ UNCHANGED <<processVars, actor, timer, wire>>
      /\ server_peers' = server_peers /\ inbox' = inbox
      /\ announced' = announced /\ state' = state
  BY DEF GotLeader, Received, peerVars, processVars
<1>2. l \in Servers \ {s} /\ Tail(mailbox[s]) \in Seq(Notes(s))
  BY <1>1, HeadOfMail DEF ElectInv, Notes
<1>3. mailbox' = [mailbox EXCEPT ![s] = Tail(mailbox[s])]
  <2>1. Tail(mailbox[s]) \o <<>> = Tail(mailbox[s])
    BY <1>2
  <2> QED BY <2>1 DEF GotLeader, Done, ElectInv, Types
<1>4. Types' /\ Buried' /\ Selfless'
  <2>1. /\ inbox' \in [Pairs -> Seq(Orders)]
        /\ server_peers' \in [Servers -> SUBSET Servers]
        /\ leader' \in [Servers -> Servers \cup {None}]
        /\ election_in_progress' \in [Servers -> BOOLEAN]
        /\ announced' \in Servers \cup {None}
    BY <1>1, <1>2 DEF ElectInv, Types
  <2> QED BY <1>1, <1>2, <1>3, <2>1, ManagerStep
<1>5. Known'
  BY <1>1, SameWorld DEF ElectInv
<1>6. Led'
  <2>1. Led
    BY <1>1, CalmMail DEF ElectInv, Elected
  <2>2. leader'[s] # s
    BY <1>1, <1>2 DEF ElectInv, Types
  <2>3. \A t \in Servers \ {s} : leader'[t] = leader[t]
    BY <1>1 DEF ElectInv, Types
  <2> QED BY <1>1, <2>1, <2>2, <2>3 DEF Led, Live
<1> QED BY <1>4, <1>5, <1>6 DEF ElectInv, Elected

(* s calls the higher servers; or it becomes the leader, and then it knows *)
(* of none, so that none is alive.                                         *)
LEMMA ElectionCallStep ==
    ASSUME ElectInv, NEW s \in Servers, ElectionCall(s)
    PROVE  ElectInv'
<1>1. /\ mailbox[s] # <<>> /\ Head(mailbox[s]).type = "ElectionCall"
      /\ UNCHANGED <<processVars, actor, timer, wire>>
      /\ server_peers' = server_peers
      /\ announced' = announced /\ state' = state
  BY DEF ElectionCall, Received, processVars
<1>2. /\ mailbox[s] \in Seq(Notes(s)) /\ Tail(mailbox[s]) \in Seq(Notes(s))
      /\ s \in Live /\ s \notin server_peers[s]
      /\ server_peers[s] \subseteq Servers
  BY <1>1, HeadOfMail, ManagerIsAlive DEF ElectInv, Types, Selfless
<1>3. PICK ps \in SUBSET server_peers[s],
           command \in {"ElectionCall", "ElectionCoordinator"} :
          inbox' = inbox \/ inbox' = Commanded(s, ps, command)
  <2>1. Higher(s) \subseteq server_peers[s]
    BY DEF Higher
  <2> QED BY <2>1 DEF ElectionCall
<1>4. /\ inbox' \in [Pairs -> Seq(Orders)]
      /\ \A q \in Pairs : q[1] # s \/ q[2] = s => inbox'[q] = inbox[q]
  <2>1. CASE inbox' = inbox
    BY <2>1 DEF ElectInv, Types
  <2>2. CASE inbox' = Commanded(s, ps, command)
    <3>1. command \in Orders /\ s \notin ps
      BY <1>2 DEF Orders
    <3> QED BY <2>2, <3>1, CommandedType DEF ElectInv
  <2> QED BY <1>3, <2>1, <2>2
<1>5. \/ leader' = leader
      \/ leader' = [leader EXCEPT ![s] = s] /\ Higher(s) = {}
  BY DEF ElectionCall
<1>6. PICK ms \in Seq(Notes(s)) : mailbox' = [mailbox EXCEPT ![s] = ms]
  <2>1. Done(s, <<>>) \/ Done(s, <<[type |-> "NotifyAllClientsIAmLeader"]>>)
    BY DEF ElectionCall
  <2>2. [type |-> "NotifyAllClientsIAmLeader"] \in Notes(s)
    BY DEF Notes
  <2>3. /\ Tail(mailbox[s]) \o <<>> \in Seq(Notes(s))
        /\ Tail(mailbox[s]) \o <<[type |-> "NotifyAllClientsIAmLeader"]>>
               \in Seq(Notes(s))
    BY <1>2, <2>2
  <2> QED BY <2>1, <2>3 DEF Done, ElectInv, Types
<1>7. Types' /\ Buried' /\ Selfless'
  <2>1. /\ server_peers' \in [Servers -> SUBSET Servers]
        /\ announced' \in Servers \cup {None}
    BY <1>1 DEF ElectInv, Types
  <2>2. leader' \in [Servers -> Servers \cup {None}]
    <3>1. leader \in [Servers -> Servers \cup {None}]
      BY DEF ElectInv, Types
    <3> QED BY <1>5, <3>1
  <2>3. election_in_progress' \in [Servers -> BOOLEAN]
    BY DEF ElectionCall, ElectInv, Types
  <2> QED BY <1>1, <1>4, <1>6, <2>1, <2>2, <2>3, ManagerStep
<1>8. Known'
  BY <1>1, SameWorld DEF ElectInv
<1>9. Led'
  <2>1. Led
    BY <1>1, CalmMail DEF ElectInv, Elected
  <2>2. CASE leader' = leader
    BY <1>1, <2>1, <2>2, SameWorld
  <2>3. CASE leader' = [leader EXCEPT ![s] = s] /\ Higher(s) = {}
    <3>1. \A t \in Servers : t > s => state[t] = "down"
      BY <1>2, <2>3, ElectionAssumption DEF Higher, ElectInv, Known, Live
    <3> QED BY <1>1, <2>1, <2>3, <3>1 DEF Led, Live, ElectInv, Types
  <2> QED BY <1>5, <2>2, <2>3
<1> QED BY <1>7, <1>8, <1>9 DEF ElectInv, Elected

(* As long as the leader lives, a peer that is lost is not the leader.     *)
LEMMA PeerDisconnectedCalm ==
    ASSUME ElectInv, Calm, NEW s \in Servers, PeerDisconnected(s)
    PROVE  Calm'
<1> DEFINE p == Head(mailbox[s]).id
<1>1. /\ mailbox[s] # <<>> /\ Head(mailbox[s]).type = "PeerDisconnected"
      /\ inbox' = Commanded(s, {p} \cap server_peers[s], "Stop")
      /\ wire' = wire /\ leader' = leader /\ state' = state
  BY DEF PeerDisconnected, Received, processVars
<1>2. p \notin Live /\ s \in Live
  BY <1>1, HeadOfMail, ManagerIsAlive DEF ElectInv, Notes, Live
<1>3. leader[s] # p
  BY <1>2 DEF Calm
<1>4. mailbox' = [mailbox EXCEPT ![s] = Tail(mailbox[s])]
  <2>1. Tail(mailbox[s]) \o <<>> = Tail(mailbox[s])
    BY <1>1, CalmMail
  <2> QED BY <1>3, <2>1 DEF PeerDisconnected, WasLeader, Done, ElectInv, Types
<1>5. \A t \in Servers : mailbox'[t] \in Seq(Losses)
  BY <1>1, <1>4, CalmMail DEF Calm, ElectInv, Types
<1>6. \A q \in Pairs : inbox'[q] \in Seq({"Stop"})
  BY <1>1 DEF Calm, Commanded
<1> QED BY <1>1, <1>5, <1>6 DEF Calm, Live

(* The peer that s forgets is dead.                                        *)
LEMMA PeerDisconnectedStep ==
    ASSUME ElectInv, NEW s \in Servers, PeerDisconnected(s)
    PROVE  ElectInv'
<1> DEFINE p == Head(mailbox[s]).id
           left == server_peers[s] \ {p}
<1>1. /\ mailbox[s] # <<>> /\ Head(mailbox[s]).type = "PeerDisconnected"
      /\ server_peers' = [server_peers EXCEPT ![s] = left]
      /\ inbox' = Commanded(s, {p} \cap server_peers[s], "Stop")
      /\ UNCHANGED <<processVars, actor, timer, wire>>
      /\ leader' = leader /\ election_in_progress' = election_in_progress
      /\ announced' = announced /\ state' = state
  BY DEF PeerDisconnected, Received, processVars
<1>2. /\ p \in Servers /\ state[p] = "down"
      /\ mailbox[s] \in Seq(Notes(s)) /\ Tail(mailbox[s]) \in Seq(Notes(s))
      /\ s \in Live /\ s \notin server_peers[s]
      /\ server_peers[s] \subseteq Servers
  BY <1>1, HeadOfMail, ManagerIsAlive DEF ElectInv, Types, Selfless, Notes
<1>3. /\ inbox' \in [Pairs -> Seq(Orders)]
      /\ \A q \in Pairs : q[1] # s \/ q[2] = s => inbox'[q] = inbox[q]
  <2>1. "Stop" \in Orders /\ s \notin {p} \cap server_peers[s]
    BY <1>2 DEF Orders
  <2> QED BY <1>1, <2>1, CommandedType DEF ElectInv
<1>4. \E ms \in Seq(Notes(s)) : mailbox' = [mailbox EXCEPT ![s] = ms]
  <2>1. \/ Done(s, <<>>)
        \/ Done(s, <<[type |-> "InitLeader"],
                     [type |-> "NotifyAllClientsIAmLeader"]>>)
        \/ Done(s, <<[type |-> "ElectionCall"]>>)
    BY DEF PeerDisconnected
  <2>2. /\ [type |-> "InitLeader"] \in Notes(s)
        /\ [type |-> "NotifyAllClientsIAmLeader"] \in Notes(s)
        /\ [type |-> "ElectionCall"] \in Notes(s)
    BY DEF Notes
  <2>3. /\ Tail(mailbox[s]) \o <<>> = Tail(mailbox[s])
        /\ Tail(mailbox[s]) \o <<[type |-> "InitLeader"],
                                 [type |-> "NotifyAllClientsIAmLeader"]>>
               \in Seq(Notes(s))
        /\ Tail(mailbox[s]) \o <<[type |-> "ElectionCall"]>> \in Seq(Notes(s))
    BY <1>2, <2>2
  <2> QED BY <1>2, <2>1, <2>3 DEF Done, ElectInv, Types
<1>5. Types' /\ Buried' /\ Selfless'
  <2>1. /\ leader' \in [Servers -> Servers \cup {None}]
        /\ election_in_progress' \in [Servers -> BOOLEAN]
        /\ announced' \in Servers \cup {None}
    BY <1>1 DEF ElectInv, Types
  <2>2. /\ server_peers' \in [Servers -> SUBSET Servers]
        /\ \A t \in Servers : server_peers'[t] \subseteq server_peers[t]
    BY <1>1 DEF ElectInv, Types
  <2> QED BY <1>1, <1>3, <1>4, <2>1, <2>2, ManagerStep
<1>6. Known'
  <2>1. p \notin Live
    BY <1>2 DEF Live
  <2>2. \A t \in Servers : t # p =>
            \A u \in Servers : t \in server_peers[u] => t \in server_peers'[u]
    BY <1>1 DEF ElectInv, Types
  <2>3. Live' = Live /\ Live \subseteq Servers
    BY <1>1 DEF Live
  <2> QED BY <2>1, <2>2, <2>3 DEF ElectInv, Known
<1>7. Elected'
  <2>1. CASE Calm
    BY <2>1, PeerDisconnectedCalm DEF Elected
  <2>2. CASE Led
    BY <1>1, <2>2, SameWorld DEF Elected
  <2> QED BY <2>1, <2>2 DEF ElectInv, Elected
<1> QED BY <1>5, <1>6, <1>7 DEF ElectInv

----------------------------------------------------------------------------
(* Of the lines on the wires only some stay when a server is killed.       *)
LEMMA CrashWires ==
    ASSUME ElectInv, NEW s \in Servers, Crash(s)
    PROVE  /\ wire' \in [Pairs -> Seq(Calls)]
           /\ \A q \in Pairs : wire[q] = <<>> => wire'[q] = <<>>
<1>1. PICK sent \in [Servers ->
                     UNION {0 .. Len(wire[<<s, p>>]) : p \in Servers}] :
          /\ \A p \in Servers : sent[p] <= Len(wire[<<s, p>>])
          /\ wire' = [q \in Pairs |->
                 IF q[2] = s THEN <<>>
                 ELSE IF q[1] = s THEN SubSeq(wire[q], 1, sent[q[2]])
                 ELSE wire[q]]
  BY DEF Crash
<1>2. \A q \in Pairs : wire[q] \in Seq(Calls)
  BY DEF ElectInv, Types
<1>3. \A p \in Servers : sent[p] \in 0 .. Len(wire[<<s, p>>])
  <2>1. \A p \in Servers : <<s, p>> \in Pairs
    BY DEF Pairs
  <2>2. \A p \in Servers : Len(wire[<<s, p>>]) \in Nat
    BY <1>2, <2>1
  <2> SUFFICES ASSUME NEW p \in Servers
               PROVE  sent[p] \in 0 .. Len(wire[<<s, p>>])
    OBVIOUS
  <2>3. sent[p] \in UNION {0 .. Len(wire[<<s, r>>]) : r \in Servers}
    BY <1>1
  <2>4. PICK r \in Servers : sent[p] \in 0 .. Len(wire[<<s, r>>])
    BY <2>3
  <2> QED BY <1>1, <2>2, <2>4
<1>4. ASSUME NEW q \in Pairs
      PROVE  /\ wire'[q] \in Seq(Calls)
             /\ wire[q] = <<>> => wire'[q] = <<>>
  <2>1. CASE q[2] = s \/ q[1] # s
    BY <1>1, <1>2, <2>1
  <2>2. CASE q[2] # s /\ q[1] = s
    <3>1. q[2] \in Servers /\ q = <<s, q[2]>>
      BY <2>2 DEF Pairs
    <3>2. wire'[q] = SubSeq(wire[q], 1, sent[q[2]])
      BY <1>1, <2>2
    <3>3. sent[q[2]] \in 0 .. Len(wire[q])
      BY <1>3, <3>1
    <3> QED BY <1>2, <3>2, <3>3
  <2> QED BY <2>1, <2>2
<1>5. wire' \in [Pairs -> Seq(Calls)]
  BY <1>1, <1>4
<1> QED BY <1>4, <1>5

(* A server is killed: at the worst it is the leader, and then all that    *)
(* live follow a dead server, so that nobody takes itself for the leader.  *)
LEMMA CrashStep ==
    ASSUME ElectInv, NEW s \in Servers, Crash(s)
    PROVE  ElectInv'
<1>1. /\ state' = [state EXCEPT ![s] = "down"]
      /\ crashes' = crashes + 1 /\ starts' = starts
      /\ joining' = [joining EXCEPT ![s] = {}]
      /\ mailbox' = [mailbox EXCEPT ![s] = <<>>]
      /\ server_peers' = [server_peers EXCEPT ![s] = {}]
      /\ leader' = [leader EXCEPT ![s] = None]
      /\ election_in_progress' = [election_in_progress EXCEPT ![s] = FALSE]
      /\ actor' = [q \in Pairs |-> IF q[1] = s THEN "none" ELSE actor[q]]
      /\ inbox' = [q \in Pairs |-> IF q[1] = s THEN <<>> ELSE inbox[q]]
      /\ timer' = [q \in Pairs |-> q[1] # s /\ timer[q]]
      /\ announced' = announced
  BY DEF Crash
<1>2. Live' = Live \ {s} /\ \A t \in Servers : t # s => state'[t] = state[t]
  BY <1>1 DEF Live, ElectInv, Types
<1>3. \A t \in Servers : mailbox'[t] \in Seq(Notes(t)')
  <2>1. \A t \in Servers : Notes(t) \subseteq Notes(t)'
    BY <1>1, <1>2 DEF Notes, ElectInv, Types
  <2> SUFFICES ASSUME NEW t \in Servers PROVE mailbox'[t] \in Seq(Notes(t)')
    OBVIOUS
  <2>2. mailbox[t] \in Seq(Notes(t))
    BY DEF ElectInv, Types
  <2>3. mailbox[t] \in Seq(Notes(t)')
    BY <2>1, <2>2
  <2>4. mailbox'[t] = IF t = s THEN <<>> ELSE mailbox[t]
    BY <1>1 DEF ElectInv, Types
  <2> QED BY <2>3, <2>4
<1>4. /\ wire' \in [Pairs -> Seq(Calls)]
      /\ \A q \in Pairs : wire[q] = <<>> => wire'[q] = <<>>
  BY CrashWires
<1>5. /\ inbox' \in [Pairs -> Seq(Orders)]
      /\ \A q \in Pairs : inbox'[q] \in {inbox[q], <<>>}
  BY <1>1 DEF ElectInv, Types
<1>6. Types'
  <2>1. mailbox' \in [Servers -> Seq(Message)]
    <3>1. <<>> \in Seq(Message)
      OBVIOUS
    <3> QED BY <1>1, <3>1 DEF ElectInv, Types
  <2>2. /\ server_peers' \in [Servers -> SUBSET Servers]
        /\ leader' \in [Servers -> Servers \cup {None}]
        /\ election_in_progress' \in [Servers -> BOOLEAN]
        /\ state' \in [Servers -> {"down", "serving"}]
    BY <1>1 DEF ElectInv, Types
  <2>3. /\ joining' = [t \in Servers |-> {}]
        /\ timer' = [q \in Pairs |-> FALSE]
    BY <1>1 DEF ElectInv, Types
  <2>4. actor' \in [Pairs -> {"none", "reading", "finished"}]
    BY <1>1 DEF ElectInv, Types
  <2>5. /\ announced' \in Servers \cup {None}
        /\ starts' = [t \in Servers |-> 1] /\ crashes' \in Nat
    BY <1>1 DEF ElectInv, Types
  <2> QED BY <1>3, <1>4, <1>5, <2>1, <2>2, <2>3, <2>4, <2>5 DEF Types
<1>7. Buried'
  <2> SUFFICES ASSUME NEW t \in Servers, state'[t] = "down"
               PROVE  /\ mailbox'[t] = <<>>
                      /\ \A p \in Servers : /\ inbox'[<<t, p>>] = <<>>
                                            /\ actor'[<<t, p>>] = "none"
    BY DEF Buried
  <2>1. \A p \in Servers : <<t, p>> \in Pairs
    BY DEF Pairs
  <2>2. CASE t = s
    BY <1>1, <2>1, <2>2 DEF ElectInv, Types
  <2>3. CASE t # s
    BY <1>1, <1>2, <2>1, <2>3 DEF ElectInv, Types, Buried
  <2> QED BY <2>2, <2>3
<1>8. Selfless'
  BY <1>1, <1>4 DEF ElectInv, Types, Selfless, Pairs
<1>9. Known'
  BY <1>1, <1>2 DEF ElectInv, Types, Known, Live
<1>10. Elected'
  <2>1. \A t \in Live' : leader'[t] = leader[t]
    BY <1>1, <1>2 DEF ElectInv, Types, Live
  <2>2. CASE Calm
    <3>1. PICK l \in Live : \A t \in Live : leader[t] = l
      BY <2>2 DEF Calm
    <3>2. CASE l = s
      BY <1>2, <2>1, <3>1, <3>2 DEF Elected, Led
    <3>3. CASE l # s
      <4>1. \A t \in Servers : mailbox'[t] \in Seq(Losses)
        BY <1>1, <2>2 DEF Calm, ElectInv, Types
      <4>2. \A q \in Pairs : inbox'[q] \in Seq({"Stop"})
        BY <1>5, <2>2 DEF Calm
      <4>3. Calm'
        BY <1>2, <1>4, <2>1, <2>2, <3>1, <3>3, <4>1, <4>2 DEF Calm
      <4> QED BY <4>3 DEF Elected
    <3> QED BY <3>2, <3>3
  <2>3. CASE Led
    <3>1. \A t \in Servers : state[t] = "down" => state'[t] = "down"
      BY <1>1 DEF ElectInv, Types
    <3> QED BY <1>2, <2>1, <2>3, <3>1 DEF Led, Elected
  <2> QED BY <2>2, <2>3 DEF ElectInv, Elected
<1> QED BY <1>6, <1>7, <1>8, <1>9, <1>10 DEF ElectInv

----------------------------------------------------------------------------
(* Which steps there are, and which of them leave the calm.                *)

LEMMA StepKinds ==
    ASSUME Types, MaxStarts = 1, [Next]_vars
    PROVE  \/ \E s \in Servers : Crash(s)
           \/ \E s \in Servers :
                 \/ InitLeader(s) \/ PeerDisconnected(s) \/ GotLeader(s)
                 \/ ElectionCall(s) \/ NotifyAllClientsIAmLeader(s)
           \/ \E s, p \in Servers :
                 \/ DispatchMessages(s, p) \/ SendLine(s, p)
                 \/ ElectionCallReceived(s, p)
                 \/ ElectionCoordinatorReceived(s, p) \/ StopPeer(s, p)
           \/ UNCHANGED vars
BY NobodyJoins, NobodyAsks, NoPeerAsks DEF Next, Handle, HandleCommand

(* Nobody who hears of losses only, and not of the leader's, calls an      *)
(* election.                                                               *)
LEMMA CalmLasts ==
    ASSUME ElectInv, Calm, MaxStarts = 1, [Next]_vars,
           \A s \in Servers : ~Crash(s)
    PROVE  Calm'
<1>1. ASSUME NEW s \in Servers,
             \/ InitLeader(s) \/ GotLeader(s) \/ ElectionCall(s)
             \/ NotifyAllClientsIAmLeader(s)
      PROVE  FALSE
  BY <1>1, CalmMail DEF InitLeader, GotLeader, ElectionCall,
                        NotifyAllClientsIAmLeader, Received
<1>2. ASSUME NEW s \in Servers, NEW p \in Servers,
             \/ SendLine(s, p) \/ ElectionCallReceived(s, p)
             \/ ElectionCoordinatorReceived(s, p)
      PROVE  FALSE
  BY <1>2, CalmInbox DEF SendLine, ElectionCallReceived,
                         ElectionCoordinatorReceived
<1>3. ASSUME NEW s \in Servers, PeerDisconnected(s)
      PROVE  Calm'
  BY <1>3, PeerDisconnectedCalm
<1>4. ASSUME NEW s \in Servers, NEW p \in Servers, DispatchMessages(s, p)
      PROVE  Calm'
  BY <1>4, DispatchMessagesCalm
<1>5. ASSUME NEW s \in Servers, NEW p \in Servers, StopPeer(s, p)
      PROVE  Calm'
  BY <1>5, StopPeerCalm
<1>6. CASE UNCHANGED vars
  BY <1>6 DEF vars, managerVars, peerVars, Calm, Live
<1> QED BY <1>1, <1>2, <1>3, <1>4, <1>5, <1>6, StepKinds DEF ElectInv

(* The first crash leaves the calm if it is the leader's, and then nobody  *)
(* follows a server that lives.                                            *)
LEMMA CalmCrash ==
    ASSUME ElectInv, Calm, NEW s \in Servers, Crash(s)
    PROVE  Calm' \/ Heirs'
<1>1. /\ state' = [state EXCEPT ![s] = "down"]
      /\ mailbox' = [mailbox EXCEPT ![s] = <<>>]
      /\ leader' = [leader EXCEPT ![s] = None]
      /\ inbox' = [q \in Pairs |-> IF q[1] = s THEN <<>> ELSE inbox[q]]
  BY DEF Crash
<1>2. Live' = Live \ {s} /\ \A t \in Live' : leader'[t] = leader[t]
  BY <1>1 DEF Live, ElectInv, Types
<1>3. \A q \in Pairs : wire'[q] = <<>>
  BY CrashWires DEF Calm
<1>4. \A q \in Pairs : inbox'[q] \in Seq({"Stop"})
  BY <1>1 DEF Calm
<1>5. \A t \in Servers : mailbox'[t] \in Seq(Losses)
  BY <1>1 DEF Calm, ElectInv, Types
<1>6. PICK l \in Live : \A t \in Live : leader[t] = l
  BY DEF Calm
<1>7. CASE l # s
  BY <1>2, <1>3, <1>4, <1>5, <1>6, <1>7 DEF Calm
<1>8. CASE l = s
  <2>1. \A t \in Live' : leader'[t] \notin Live'
    BY <1>2, <1>6, <1>8
  <2>2. \A t \in Servers : mailbox'[t] \in Seq(HeirNotes(t)')
    <3> SUFFICES ASSUME NEW t \in Servers
                 PROVE  mailbox'[t] \in Seq(HeirNotes(t)')
      OBVIOUS
    <3>1. mailbox'[t] \in Seq(Notes(t)')
      BY CrashStep DEF ElectInv, Types
    <3>2. \A m \in Losses : m.type # "ElectionCoordinatorReceived"
      BY DEF Losses
    <3> QED BY <1>5, <3>1, <3>2 DEF HeirNotes
  <2>3. \A t, p \in Servers : /\ inbox'[<<t, p>>] \in Seq(HeirOrders(t, p)')
                              /\ wire'[<<t, p>>] \in Seq(HeirCalls(t)')
    <3> SUFFICES ASSUME NEW t \in Servers, NEW p \in Servers
                 PROVE  /\ inbox'[<<t, p>>] \in Seq(HeirOrders(t, p)')
                        /\ wire'[<<t, p>>] \in Seq(HeirCalls(t)')
      OBVIOUS
    <3>1. <<t, p>> \in Pairs
      BY DEF Pairs
    <3>2. inbox'[<<t, p>>] \in Seq({"Stop"}) /\ wire'[<<t, p>>] = <<>>
      BY <1>3, <1>4, <3>1
    <3>3. {"Stop"} \subseteq HeirOrders(t, p)'
      BY DEF HeirOrders, Orders
    <3>4. inbox'[<<t, p>>] \in Seq(HeirOrders(t, p)')
      BY <3>2, <3>3
    <3>5. <<>> \in Seq(HeirCalls(t)')
      OBVIOUS
    <3> QED BY <3>2, <3>4, <3>5
  <2> QED BY <2>1, <2>2, <2>3 DEF Heirs
<1> QED BY <1>7, <1>8

----------------------------------------------------------------------------
(* After the loss of the leader, as long as no other server is lost.       *)

(* With the same servers up the same one is the highest.                   *)
LEMMA SameHighest ==
    ASSUME state' = state
    PROVE  /\ Live' = Live
           /\ \A s \in Servers : HeirNotes(s)' = HeirNotes(s)
           /\ \A s, p \in Servers : HeirOrders(s, p)' = HeirOrders(s, p)
           /\ \A s \in Servers : HeirCalls(s)' = HeirCalls(s)
           /\ \A p : Highest(p)' = Highest(p)
<1>1. Live' = Live
  BY DEF Live
<1>2. \A p : Highest(p)' = Highest(p)
  BY <1>1 DEF Highest
<1> QED BY <1>1, <1>2 DEF HeirNotes, Notes, HeirOrders, HeirCalls

LEMMA OneHighest ==
    ASSUME NEW p, NEW q, Highest(p), Highest(q)
    PROVE  p = q
<1>1. p \in Nat /\ q \in Nat /\ p <= q /\ q <= p
  BY ElectionAssumption DEF Highest, Live
<1> QED BY <1>1

(* A step of s and of its ServerPeers.                                     *)
LEMMA HeirsKept ==
    ASSUME Heirs, state' = state, NEW s \in Servers,
           \A t \in Servers \ {s} : /\ leader'[t] = leader[t]
                                    /\ mailbox'[t] = mailbox[t],
           leader'[s] = leader[s] \/ Highest(leader'[s]),
           mailbox'[s] \in Seq(HeirNotes(s)),
           \A t, p \in Servers : /\ inbox'[<<t, p>>] \in Seq(HeirOrders(t, p))
                                 /\ wire'[<<t, p>>] \in Seq(HeirCalls(t))
    PROVE  Heirs'
<1>1. \A t \in Servers : mailbox'[t] \in Seq(HeirNotes(t))
  BY DEF Heirs
<1>2. \A t \in Live : leader'[t] \in Live => Highest(leader'[t])
  BY DEF Heirs, Live
<1> QED BY <1>1, <1>2, SameHighest DEF Heirs

(* The manager of s takes its first message and adds some.                 *)
LEMMA HeirMail ==
    ASSUME Types, Heirs, NEW s \in Servers, mailbox[s] # <<>>,
           NEW ms \in Seq(HeirNotes(s)), Done(s, ms)
    PROVE  /\ Head(mailbox[s]) \in HeirNotes(s)
           /\ mailbox'[s] \in Seq(HeirNotes(s))
           /\ \A t \in Servers \ {s} : mailbox'[t] = mailbox[t]
<1>1. mailbox[s] \in Seq(HeirNotes(s))
  BY DEF Heirs
<1>2. /\ Head(mailbox[s]) \in HeirNotes(s)
      /\ Tail(mailbox[s]) \o ms \in Seq(HeirNotes(s))
  BY <1>1
<1> QED BY <1>2 DEF Done, Types

(* The orders of s to some of its ServerPeers.                             *)
LEMMA HeirCommanded ==
    ASSUME Heirs, NEW s \in Servers, NEW ps, NEW command \in Orders,
           command # "ElectionCoordinatorReceived",
           command = "ElectionCoordinator" => Highest(s)
    PROVE  \A t, p \in Servers :
               Commanded(s, ps, command)[<<t, p>>] \in Seq(HeirOrders(t, p))
<1> SUFFICES ASSUME NEW t \in Servers, NEW p \in Servers
             PROVE  Commanded(s, ps, command)[<<t, p>>]
                        \in Seq(HeirOrders(t, p))
  OBVIOUS
<1>1. <<t, p>> \in Pairs /\ inbox[<<t, p>>] \in Seq(HeirOrders(t, p))
  BY DEF Heirs, Pairs
<1>2. t = s => command \in HeirOrders(t, p)
  BY DEF HeirOrders
<1>3. t = s =>
          Append(inbox[<<t, p>>], command) \in Seq(HeirOrders(t, p))
  BY <1>1, <1>2
<1> QED BY <1>1, <1>3 DEF Commanded

(* A server that knows of no higher one is the highest.                    *)
LEMMA NoHigher ==
    ASSUME ElectInv, NEW s \in Live, Higher(s) = {}
    PROVE  Highest(s)
<1> SUFFICES ASSUME NEW t \in Live
             PROVE  t <= s
  BY DEF Highest
<1>1. s \in Nat /\ t \in Nat
  BY ElectionAssumption DEF Live
<1>2. t # s => t \in server_peers[s]
  BY DEF ElectInv, Known
<1> QED BY <1>1, <1>2 DEF Higher

(* The handlers of the manager of s.                                       *)
LEMMA ManagerHeirs ==
    ASSUME ElectInv, Heirs, NEW s \in Servers,
           \/ InitLeader(s) \/ PeerDisconnected(s) \/ GotLeader(s)
           \/ ElectionCall(s) \/ NotifyAllClientsIAmLeader(s)
    PROVE  /\ leader'[s] = leader[s] \/ Highest(leader'[s])
           /\ Heirs'
<1> DEFINE inboxes == \A t, p \in Servers :
                          inbox'[<<t, p>>] \in Seq(HeirOrders(t, p))
           mails == /\ mailbox'[s] \in Seq(HeirNotes(s))
                    /\ \A t \in Servers \ {s} : mailbox'[t] = mailbox[t]
           leads == /\ leader'[s] = leader[s] \/ Highest(leader'[s])
                    /\ \A t \in Servers \ {s} : leader'[t] = leader[t]
<1>1. /\ mailbox[s] # <<>> /\ wire' = wire /\ state' = state
  BY DEF InitLeader, PeerDisconnected, GotLeader, ElectionCall,
         NotifyAllClientsIAmLeader, Received, peerVars, processVars
<1>2. s \in Live
  BY <1>1, ManagerIsAlive DEF ElectInv
<1>3. /\ <<>> \in Seq(HeirNotes(s))
      /\ <<[type |-> "ElectionCall"]>> \in Seq(HeirNotes(s))
      /\ <<[type |-> "NotifyAllClientsIAmLeader"]>> \in Seq(HeirNotes(s))
      /\ <<[type |-> "InitLeader"], [type |-> "NotifyAllClientsIAmLeader"]>>
             \in Seq(HeirNotes(s))
  <2>1. /\ [type |-> "ElectionCall"] \in HeirNotes(s)
        /\ [type |-> "NotifyAllClientsIAmLeader"] \in HeirNotes(s)
        /\ [type |-> "InitLeader"] \in HeirNotes(s)
    BY DEF HeirNotes, Notes
  <2> QED BY <2>1
<1>4. \A t, p \in Servers : inbox[<<t, p>>] \in Seq(HeirOrders(t, p))
  BY DEF Heirs
<1>5. CASE InitLeader(s)
  <2>1. mails
    BY <1>1, <1>3, <1>5, HeirMail DEF InitLeader, ElectInv
  <2>2. Alone(s) => Highest(s)
    BY <1>2, NoHigher DEF Alone, Higher
  <2>3. leads
    BY <1>5, <2>2 DEF InitLeader, ElectInv, Types
  <2>4. inboxes
    BY <1>4, <1>5 DEF InitLeader, peerVars
  <2> QED BY <2>1, <2>3, <2>4, <1>1, HeirsKept DEF Heirs
<1>6. CASE PeerDisconnected(s)
  <2>1. mails
    BY <1>1, <1>3, <1>6, HeirMail DEF PeerDisconnected, ElectInv
  <2>2. leads
    BY <1>6 DEF PeerDisconnected
  <2>3. inboxes
    BY <1>6, HeirCommanded DEF PeerDisconnected, Orders
  <2> QED BY <2>1, <2>2, <2>3, <1>1, HeirsKept DEF Heirs
<1>7. CASE GotLeader(s)
  <2>1. mails /\ Head(mailbox[s]) \in HeirNotes(s)
    BY <1>1, <1>3, <1>7, HeirMail DEF GotLeader, ElectInv
  <2>2. Highest(Head(mailbox[s]).id)
    BY <1>7, <2>1 DEF GotLeader, Received, HeirNotes, Notes
  <2>3. leads
    BY <1>7, <2>2 DEF GotLeader, ElectInv, Types
  <2>4. inboxes
    BY <1>4, <1>7 DEF GotLeader, peerVars
  <2> QED BY <2>1, <2>3, <2>4, <1>1, HeirsKept DEF Heirs
<1>8. CASE ElectionCall(s)
  <2>1. mails
    BY <1>1, <1>3, <1>8, HeirMail DEF ElectionCall, ElectInv
  <2>2. leads
    BY <1>2, <1>8, NoHigher DEF ElectionCall, ElectInv, Types
  <2>3. inboxes
    <3>1. CASE inbox' = inbox
      BY <1>4, <3>1
    <3>2. CASE inbox' = Commanded(s, Higher(s), "ElectionCall")
      BY <3>2, HeirCommanded DEF Orders
    <3>3. CASE /\ inbox' = Commanded(s, server_peers[s],
                                     "ElectionCoordinator")
               /\ Higher(s) = {}
      BY <1>2, <3>3, HeirCommanded, NoHigher DEF Orders
    <3> QED BY <1>8, <3>1, <3>2, <3>3 DEF ElectionCall
  <2> QED BY <2>1, <2>2, <2>3, <1>1, HeirsKept DEF Heirs
<1>9. CASE NotifyAllClientsIAmLeader(s)
  <2>1. mails
    BY <1>1, <1>3, <1>9, HeirMail DEF NotifyAllClientsIAmLeader, ElectInv
  <2>2. leads
    BY <1>9 DEF NotifyAllClientsIAmLeader, managerVars
  <2>3. inboxes
    BY <1>4, <1>9 DEF NotifyAllClientsIAmLeader, peerVars
  <2> QED BY <2>1, <2>2, <2>3, <1>1, HeirsKept DEF Heirs
<1> QED BY <1>5, <1>6, <1>7, <1>8, <1>9

(* What the ServerPeer of s for p does.                                    *)
LEMMA PeerHeirs ==
    ASSUME ElectInv, Heirs, NEW s \in Servers, NEW p \in Servers,
           \/ DispatchMessages(s, p) \/ SendLine(s, p)
           \/ ElectionCallReceived(s, p)
           \/ ElectionCoordinatorReceived(s, p) \/ StopPeer(s, p)
    PROVE  Heirs'
<1> DEFINE q == <<s, p>>
           inboxes == \A t, r \in Servers :
                          inbox'[<<t, r>>] \in Seq(HeirOrders(t, r))
           wires == \A t, r \in Servers :
                        wire'[<<t, r>>] \in Seq(HeirCalls(t))
           mails == /\ mailbox'[s] \in Seq(HeirNotes(s))
                    /\ \A t \in Servers \ {s} : mailbox'[t] = mailbox[t]
<1>1. leader' = leader /\ state' = state
  BY DEF DispatchMessages, SendLine, ElectionCallReceived, StopPeer,
         ElectionCoordinatorReceived, managerVars, processVars
<1>2. q \in Pairs /\ <<p, s>> \in Pairs
  BY DEF Pairs
<1>3. /\ \A t \in Servers : mailbox[t] \in Seq(HeirNotes(t))
      /\ \A t, r \in Servers : /\ inbox[<<t, r>>] \in Seq(HeirOrders(t, r))
                               /\ wire[<<t, r>>] \in Seq(HeirCalls(t))
  BY DEF Heirs
<1>4. /\ inbox \in [Pairs -> Seq(Orders)] /\ wire \in [Pairs -> Seq(Calls)]
      /\ mailbox \in [Servers -> Seq(Message)]
  BY DEF ElectInv, Types
<1>5. ASSUME NEW command, NextIs(s, p, command), Handled(s, p)
      PROVE  inboxes /\ command \in HeirOrders(s, p)
  <2>1. inbox[q] \in Seq(HeirOrders(s, p)) /\ inbox[q] # <<>>
    BY <1>3, <1>5 DEF NextIs
  <2>2. /\ Head(inbox[q]) \in HeirOrders(s, p)
        /\ Tail(inbox[q]) \in Seq(HeirOrders(s, p))
    BY <2>1
  <2>3. \A t, r \in Servers : <<t, r>> \in Pairs /\ (<<t, r>> = q =>
                                                        t = s /\ r = p)
    BY DEF Pairs
  <2> QED BY <1>3, <1>4, <1>5, <2>2, <2>3 DEF NextIs, Handled
<1>6. ASSUME NEW notes \in Seq(HeirOrders(s, p)),
             inbox' = [inbox EXCEPT ![q] = notes]
      PROVE  inboxes
  <2>1. \A t, r \in Servers : <<t, r>> \in Pairs /\ (<<t, r>> = q =>
                                                        t = s /\ r = p)
    BY DEF Pairs
  <2> QED BY <1>3, <1>4, <1>6, <2>1
<1>7. ASSUME NEW ms \in Seq(HeirNotes(s)),
             mailbox' = [mailbox EXCEPT ![s] = @ \o ms]
      PROVE  mails
  <2>1. mailbox[s] \o ms \in Seq(HeirNotes(s))
    BY <1>3
  <2> QED BY <1>4, <1>7, <2>1
<1> HIDE DEF inboxes, mails
<1>8. CASE DispatchMessages(s, p)
  <2>1. PICK notes \in Seq(Orders), finished \in BOOLEAN,
             n \in 0 .. Len(wire[<<p, s>>]) :
            /\ finished => state[p] = "down"
            /\ \A i \in 1 .. Len(notes) :
                   \E j \in 1 .. Len(wire[<<p, s>>]) :
                       notes[i] = NoteOf(wire[<<p, s>>][j])
            /\ inbox' = [inbox EXCEPT ![<<s, p>>] = notes]
            /\ wire' = [wire EXCEPT ![<<p, s>>] = SubSeq(@, n + 1, Len(@))]
            /\ mailbox' = [mailbox EXCEPT ![s] = @ \o
                   IF finished
                   THEN <<[type |-> "PeerDisconnected", id |-> p]>>
                   ELSE <<>>]
    BY <1>8, LinesRead
  <2>2. wire[<<p, s>>] \in Seq(HeirCalls(p))
    BY <1>3
  <2>3. inboxes
    <3>1. \A line \in HeirCalls(p) : NoteOf(line) \in HeirOrders(s, p)
      BY DEF HeirCalls, Calls, NoteOf, HeirOrders, Orders
    <3>2. \A i \in 1 .. Len(notes) : notes[i] \in HeirOrders(s, p)
      BY <2>1, <2>2, <3>1
    <3>3. notes \in Seq(HeirOrders(s, p))
      BY <3>2
    <3> QED BY <1>6, <2>1, <3>3
  <2>4. wires
    <3>1. SubSeq(wire[<<p, s>>], n + 1, Len(wire[<<p, s>>]))
              \in Seq(HeirCalls(p))
      BY <2>2
    <3>2. \A t, r \in Servers : <<t, r>> \in Pairs /\ (<<t, r>> = <<p, s>> =>
                                                          t = p)
      BY DEF Pairs
    <3> QED BY <1>3, <1>4, <2>1, <3>1, <3>2
  <2>5. mails
    <3>1. s # p
      BY <1>8, PeerIsAlive DEF DispatchMessages, ElectInv
    <3>2. finished => [type |-> "PeerDisconnected", id |-> p] \in HeirNotes(s)
      BY <2>1, <3>1 DEF HeirNotes, Notes
    <3> DEFINE notice == IF finished
                         THEN <<[type |-> "PeerDisconnected", id |-> p]>>
                         ELSE <<>>
    <3>3. notice \in Seq(HeirNotes(s))
      BY <3>2
    <3> QED BY <1>7, <2>1, <3>3
  <2> QED BY <1>1, <2>3, <2>4, <2>5, HeirsKept DEF inboxes, mails
<1>9. CASE SendLine(s, p)
  <2>1. PICK command \in {"LeaderQuery", "ElectionCall",
                          "ElectionCoordinator"} :
            /\ NextIs(s, p, command) /\ Handled(s, p)
            /\ wire' = Written(s, p, [type |-> command])
            /\ mailbox' = mailbox
    BY <1>9 DEF SendLine
  <2>2. inboxes /\ command \in HeirOrders(s, p)
    BY <1>5, <2>1
  <2>3. [type |-> command] \in HeirCalls(s)
    BY <2>2, <2>1 DEF HeirOrders, Orders, HeirCalls, Calls
  <2>4. wires
    <3>1. Append(wire[q], [type |-> command]) \in Seq(HeirCalls(s))
      BY <1>3, <2>3
    <3>2. \A t, r \in Servers : <<t, r>> \in Pairs /\ (<<t, r>> = q => t = s)
      BY DEF Pairs
    <3> QED BY <1>3, <1>4, <2>1, <3>1, <3>2 DEF Written
  <2> QED BY <1>1, <1>3, <2>1, <2>2, <2>4, HeirsKept DEF inboxes
<1>10. CASE ElectionCallReceived(s, p)
  <2>1. /\ wire' = wire /\ inboxes
    BY <1>5, <1>10 DEF ElectionCallReceived
  <2>2. <<[type |-> "ElectionCall"]>> \in Seq(HeirNotes(s))
    <3>1. [type |-> "ElectionCall"] \in HeirNotes(s)
      BY DEF HeirNotes, Notes
    <3> QED BY <3>1
  <2>3. mails
    BY <1>7, <1>10, <2>2 DEF ElectionCallReceived, Told
  <2> QED BY <1>1, <1>3, <2>1, <2>3, HeirsKept DEF inboxes, mails
<1>11. CASE ElectionCoordinatorReceived(s, p)
  <2>1. /\ wire' = wire /\ inboxes
        /\ "ElectionCoordinatorReceived" \in HeirOrders(s, p)
    BY <1>5, <1>11 DEF ElectionCoordinatorReceived
  <2>2. s # p
    BY <1>11, PeerIsAlive DEF ElectionCoordinatorReceived, NextIs, ElectInv
  <2>3. <<[type |-> "ElectionCoordinatorReceived", id |-> p]>>
            \in Seq(HeirNotes(s))
    <3>1. [type |-> "ElectionCoordinatorReceived", id |-> p] \in HeirNotes(s)
      BY <2>1, <2>2 DEF HeirOrders, HeirNotes, Notes
    <3> QED BY <3>1
  <2>4. mails
    BY <1>7, <1>11, <2>3 DEF ElectionCoordinatorReceived, Told
  <2> QED BY <1>1, <1>3, <2>1, <2>4, HeirsKept DEF inboxes, mails
<1>12. CASE StopPeer(s, p)
  <2>1. wire' = wire /\ mailbox' = mailbox
    BY <1>12 DEF StopPeer
  <2>2. <<>> \in Seq(HeirOrders(s, p)) /\ inbox' = [inbox EXCEPT ![q] = <<>>]
    BY <1>12 DEF StopPeer
  <2>3. inboxes
    BY <1>6, <2>2
  <2> QED BY <1>1, <1>3, <2>1, <2>3, HeirsKept DEF inboxes
<1> QED BY <1>8, <1>9, <1>10, <1>11, <1>12

(* The calm lasts until the leader is lost, and from then on only the      *)
(* highest of the others is elected, until another server is lost.         *)
LEMMA InheritedStep ==
    ASSUME MaxStarts = 1, ElectInv, Inherited, [Next]_vars
    PROVE  Inherited'
<1>1. CASE \E s \in Servers : Crash(s)
  <2>1. PICK s \in Servers : Crash(s)
    BY <1>1
  <2>2. crashes' = crashes + 1 /\ crashes \in Nat
    BY <2>1 DEF Crash, ElectInv, Types
  <2>3. crashes' <= 1 => crashes = 0 /\ crashes' = 1 /\ Calm
    BY <2>2 DEF Inherited
  <2> QED BY <2>1, <2>3, CalmCrash DEF Inherited
<1>2. CASE \A s \in Servers : ~Crash(s)
  <2>1. crashes' = crashes
    BY <1>2, StepKinds
       DEF ElectInv, InitLeader, PeerDisconnected, GotLeader, ElectionCall,
           NotifyAllClientsIAmLeader, DispatchMessages, SendLine, StopPeer,
           ElectionCallReceived, ElectionCoordinatorReceived, processVars,
           bounds, vars
  <2>2. ASSUME Calm
        PROVE  Calm'
    BY <1>2, <2>2, CalmLasts
  <2>3. ASSUME Heirs
        PROVE  Heirs'
    <3>1. CASE UNCHANGED vars
      <4>1. /\ state' = state /\ leader' = leader /\ mailbox' = mailbox
            /\ inbox' = inbox /\ wire' = wire
        BY <3>1 DEF vars, managerVars, peerVars
      <4> QED BY <2>3, <4>1, SameHighest DEF Heirs
    <3> QED BY <1>2, <2>3, <3>1, StepKinds, ManagerHeirs, PeerHeirs
            DEF ElectInv
  <2> QED BY <2>1, <2>2, <2>3 DEF Inherited
<1> QED BY <1>1, <1>2

----------------------------------------------------------------------------
(* The theorems.                                                           *)

LEMMA ElectStep ==
    ASSUME MaxStarts = 1, ElectInv, [Next]_vars
    PROVE  ElectInv'
<1>1. ASSUME NEW s \in Servers, Crash(s)
      PROVE  ElectInv'
  BY <1>1, CrashStep
<1>2. ASSUME NEW s \in Servers,
             \/ InitLeader(s) \/ PeerDisconnected(s) \/ GotLeader(s)
             \/ ElectionCall(s) \/ NotifyAllClientsIAmLeader(s)
      PROVE  ElectInv'
  BY <1>2, InitLeaderStep, PeerDisconnectedStep, GotLeaderStep,
     ElectionCallStep, NotifyStep
<1>3. ASSUME NEW s \in Servers, NEW p \in Servers,
             \/ DispatchMessages(s, p) \/ SendLine(s, p)
             \/ ElectionCallReceived(s, p)
             \/ ElectionCoordinatorReceived(s, p) \/ StopPeer(s, p)
      PROVE  ElectInv'
  BY <1>3, DispatchMessagesStep, SendLineStep, StopPeerStep, ReceivedStep
<1>4. CASE UNCHANGED vars
  <2>1. /\ state' = state /\ joining' = joining /\ mailbox' = mailbox
        /\ server_peers' = server_peers /\ leader' = leader
        /\ election_in_progress' = election_in_progress /\ actor' = actor
        /\ inbox' = inbox /\ timer' = timer /\ wire' = wire
        /\ announced' = announced /\ starts' = starts /\ crashes' = crashes
    BY <1>4 DEF vars, managerVars, peerVars, bounds
  <2>2. \A t \in Servers : Notes(t)' = Notes(t)
    BY <2>1 DEF Notes
  <2>3. Types'
    BY <2>1, <2>2 DEF ElectInv, Types
  <2>4. Known' /\ (Led => Led')
    BY <2>1, SameWorld DEF ElectInv
  <2>5. Calm => Calm'
    BY <2>1 DEF Calm, Live
  <2>6. Buried' /\ Selfless'
    BY <2>1 DEF ElectInv, Buried, Selfless
  <2> QED BY <2>3, <2>4, <2>5, <2>6 DEF ElectInv, Elected
<1> QED BY <1>1, <1>2, <1>3, <1>4, StepKinds DEF ElectInv

(* ElectInv, the strengthening of TypeOK and AtMostOneLeader that every    *)
(* handler of the manager and of the ServerPeers preserves, holds always   *)
(* when every server is started once.                                      *)
THEOREM SpecElectInv ==
    ASSUME MaxStarts = 1
    PROVE  EstablishedSpec => []ElectInv
<1>1. Established => ElectInv
  BY ElectInit
<1>2. ElectInv /\ [Next]_vars => ElectInv'
  BY ElectStep
<1> QED BY <1>1, <1>2, PTL DEF EstablishedSpec

(* The servers, their mailboxes and the lines between them keep their      *)
(* types, whoever crashes.                                                 *)
THEOREM TypeCorrect ==
    ASSUME MaxStarts = 1
    PROVE  EstablishedSpec => []TypeOK
<1>1. ElectInv => TypeOK
  BY TypesImply DEF ElectInv
<1> QED BY <1>1, SpecElectInv, PTL

(* Of any number of servers, any of which may crash, two that live never   *)
(* both take themselves for the leader.                                    *)
THEOREM LeaderIsUnique ==
    ASSUME MaxStarts = 1
    PROVE  EstablishedSpec => []AtMostOneLeader
<1>1. ElectInv => AtMostOneLeader
  BY ElectedIsUnique DEF ElectInv
<1> QED BY <1>1, SpecElectInv, PTL

(* A server takes over only when all the higher ones are gone: handlers    *)
(* InitLeader and ElectionCall act on what the server knows of its peers,  *)
(* and it knows of every one that lives.                                   *)
LEMMA TakesOver ==
    ASSUME ElectInv, MaxStarts = 1, [Next]_vars,
           NEW s \in Servers, leader[s] # s, leader'[s] = s,
           NEW t \in Servers, t > s
    PROVE  state[t] = "down"
<1>1. s \in Live /\ (Alone(s) \/ Higher(s) = {})
  <2>1. ASSUME NEW u \in Servers, InitLeader(u)
        PROVE  Alone(s) /\ s \in Live
    <3>1. u = s /\ Alone(u)
      BY <2>1 DEF InitLeader, ElectInv, Types
    <3> QED BY <2>1, <3>1, ManagerIsAlive DEF InitLeader, Received, ElectInv
  <2>2. ASSUME NEW u \in Servers, ElectionCall(u)
        PROVE  Higher(s) = {} /\ s \in Live
    <3>1. u = s /\ Higher(u) = {}
      BY <2>2 DEF ElectionCall, ElectInv, Types
    <3> QED BY <2>2, <3>1, ManagerIsAlive DEF ElectionCall, Received, ElectInv
  <2>3. ASSUME NEW u \in Servers, GotLeader(u)
        PROVE  FALSE
    <3>1. Head(mailbox[u]).id # u
      BY <2>3, HeadOfMail DEF GotLeader, Received, ElectInv, Notes
    <3> QED BY <2>3, <3>1 DEF GotLeader, ElectInv, Types
  <2>4. ASSUME NEW u \in Servers, Crash(u)
        PROVE  FALSE
    BY <2>4, ElectionAssumption DEF Crash, ElectInv, Types
  <2>5. leader' # leader
    BY DEF ElectInv, Types
  <2>6. \E u \in Servers : InitLeader(u) \/ ElectionCall(u) \/ GotLeader(u)
                           \/ Crash(u)
    BY <2>5, NobodyJoins
       DEF Next, vars, managerVars, Handle, HandleCommand, ElectInv,
           RegisterPeerServer, LeaderQuery, PeerDisconnected, GetLeaderInfo,
           NotifyAllClientsIAmLeader, DispatchMessages, StartPeer, SendLine,
           ElectionCallReceived, ElectionCoordinatorReceived, AskLeader,
           StopPeer, GotLeaderTimer
  <2> QED BY <2>1, <2>2, <2>3, <2>4, <2>6
<1>2. t # s
  BY ElectionAssumption
<1>3. t \notin server_peers[s]
  BY <1>1 DEF Alone, Higher
<1> QED BY <1>1, <1>2, <1>3 DEF ElectInv, Known, Live

(* A server becomes the leader only when all those above it are down: the *)
(* bully rule, of InitLeader and ElectionCall.                             *)
THEOREM BullyRule ==
    ASSUME MaxStarts = 1
    PROVE  EstablishedSpec => HighestTakesOver
<1>1. ElectInv /\ [Next]_vars =>
          [\A s \in Servers : leader[s] # s /\ leader'[s] = s =>
               \A t \in Servers : t > s => state[t] = "down"]_vars
  BY TakesOver
<1> QED BY <1>1, SpecElectInv, PTL DEF EstablishedSpec, HighestTakesOver

(* Whoever follows a server that lives follows the leader that was         *)
(* established or the highest server, and no other takes its place.        *)
LEMMA Stays ==
    ASSUME MaxStarts = 1, ElectInv, Inherited, [Next]_vars,
           NEW s \in Live, leader[s] \in Live, state'[s] # "down",
           crashes <= 1
    PROVE  leader'[s] = leader[s]
<1>1. s \in Servers
  BY DEF Live
<1>2. CASE \E u \in Servers : Crash(u)
  <2>1. PICK u \in Servers : Crash(u)
    BY <1>2
  <2> QED BY <1>1, <2>1 DEF Crash, ElectInv, Types
<1>3. ASSUME NEW u \in Servers, NEW p \in Servers,
             \/ DispatchMessages(u, p) \/ SendLine(u, p)
             \/ ElectionCallReceived(u, p)
             \/ ElectionCoordinatorReceived(u, p) \/ StopPeer(u, p)
      PROVE  leader' = leader
  BY <1>3 DEF DispatchMessages, SendLine, ElectionCallReceived, StopPeer,
              ElectionCoordinatorReceived, managerVars
<1>4. ASSUME NEW u \in Servers,
             \/ InitLeader(u) \/ PeerDisconnected(u) \/ GotLeader(u)
             \/ ElectionCall(u) \/ NotifyAllClientsIAmLeader(u)
      PROVE  leader'[s] = leader[s]
  <2>1. u # s => leader'[s] = leader[s]
    BY <1>1, <1>4 DEF InitLeader, PeerDisconnected, GotLeader, ElectionCall,
                 NotifyAllClientsIAmLeader, managerVars, ElectInv, Types
  <2>2. CASE Calm
    BY <1>4, <2>2, CalmMail
       DEF InitLeader, PeerDisconnected, GotLeader, ElectionCall,
           NotifyAllClientsIAmLeader, Received
  <2>3. CASE Heirs /\ u = s
    <3>1. Highest(leader[s])
      BY <2>3 DEF Heirs
    <3>2. leader'[s] = leader[s] \/ Highest(leader'[s])
      BY <1>4, <2>3, ManagerHeirs
    <3> QED BY <3>1, <3>2, OneHighest
  <2> QED BY <2>1, <2>2, <2>3 DEF Inherited
<1>5. CASE UNCHANGED vars
  BY <1>5 DEF vars, managerVars
<1> QED BY <1>2, <1>3, <1>4, <1>5, StepKinds DEF ElectInv

(* Of any number of servers of which at most one has crashed, none turns   *)
(* away from a leader that is alive: the handlers GotLeader, ElectionCall  *)
(* and InitLeader change the leader only in place of one that is gone.     *)
THEOREM LeaderIsKept ==
    ASSUME MaxStarts = 1
    PROVE  EstablishedSpec => LiveLeaderStays
<1>1. Established => Inherited
  BY ElectInit DEF Established, Inherited, Calm, Live, Pairs
<1>2. ElectInv /\ Inherited /\ [Next]_vars => Inherited'
  BY InheritedStep
<1>3. ElectInv /\ Inherited /\ [Next]_vars =>
          [\A s \in Live : leader[s] \in Live /\ state'[s] # "down"
                           /\ crashes <= 1 => leader'[s] = leader[s]]_vars
  BY Stays
<1> QED BY <1>1, <1>2, <1>3, SpecElectInv, PTL
        DEF EstablishedSpec, LiveLeaderStays
=============================================================================
