---------------------- MODULE ClientReconnectionProofs ----------------------
(***************************************************************************)
(* Theorems about ClientReconnection, for any number of servers, any order *)
(* of them in the configuration, and any number of passes, mandates,       *)
(* crashes, restarts and late answers.                                     *)
(***************************************************************************)
EXTENDS ClientReconnection, SetFacts

----------------------------------------------------------------------------
(* Datagrams and their fields.                                             *)
LEMMA DatagramFields ==
    ASSUME NEW m \in Datagram
    PROVE  /\ m.type \in {"ConnectionAvailable", "ConnectionNotAvailable",
                          "ReconnectionMandate"}
           /\ m.from \in Servers
           /\ Refers(m) => m.leader \in Servers \cup {None}
BY DEF Datagram, Refers

(* A datagram that arrives is behind the others, one that is read was the  *)
(* first.                                                                  *)
LEMMA Inbox ==
    ASSUME inbox \in Seq(Datagram)
    PROVE  /\ DOMAIN inbox = 1 .. Len(inbox) /\ Len(inbox) \in Nat
           /\ \A k \in DOMAIN inbox : inbox[k] \in Datagram
           /\ inbox # <<>> => /\ Head(inbox) = inbox[1] /\ 1 \in DOMAIN inbox
                              /\ Tail(inbox) \in Seq(Datagram)
                              /\ DOMAIN Tail(inbox) = 1 .. Len(inbox) - 1
                              /\ \A k \in 1 .. Len(inbox) - 1 :
                                    /\ k + 1 \in DOMAIN inbox
                                    /\ Tail(inbox)[k] = inbox[k + 1]
OBVIOUS

(* A datagram that arrives comes last, if the client has a socket bound.   *)
LEMMA Arrival ==
    ASSUME inbox \in Seq(Datagram), NEW m \in Datagram
    PROVE  /\ Delivered(m) \in Seq(Datagram)
           /\ DOMAIN inbox \subseteq DOMAIN Delivered(m)
           /\ \A k \in DOMAIN inbox : Delivered(m)[k] = inbox[k]
           /\ \A k \in DOMAIN Delivered(m) :
                 \/ k \in DOMAIN inbox
                 \/ k = Len(inbox) + 1 /\ Delivered(m)[k] = m
           /\ Len(inbox) + 1 \in DOMAIN Delivered(m)
                 <=> client \in {"starting", "running"}
<1> DEFINE there == client \in {"starting", "running"}
<1>1. Delivered(m) = IF there THEN Append(inbox, m) ELSE inbox
  BY DEF Delivered
<1> HIDE DEF there
<1>2. CASE there
  BY <1>1, <1>2 DEF there
<1>3. CASE ~there
  BY <1>1, <1>3 DEF there
<1> QED BY <1>2, <1>3

(* The answer of a server to a probe refers to another one unless it leads.*)
LEMMA AnswerType ==
    ASSUME leader \in [Servers -> Servers \cup {None}], NEW s \in Servers
    PROVE  /\ AnswerOf(s) \in Datagram /\ AnswerOf(s).from = s
           /\ AnswerOf(s).type # "ReconnectionMandate"
           /\ Refers(AnswerOf(s)) <=> leader[s] # s
           /\ Refers(AnswerOf(s)) => AnswerOf(s).leader = leader[s]
<1>1. CASE leader[s] = s
  BY <1>1 DEF AnswerOf, Datagram, Refers
<1>2. CASE leader[s] # s
  BY <1>2 DEF AnswerOf, Datagram, Refers
<1> QED BY <1>1, <1>2

Mandate(s) == [type |-> "ReconnectionMandate", from |-> s]

----------------------------------------------------------------------------
(* Attempts.                                                               *)
Going(a) == /\ a \in Attempt
            /\ a.at \in DOMAIN a.dest_ports

(* An attempt that goes on stands at a port of its list.                   *)
LEMMA AttemptType ==
    ASSUME NEW a, Going(a)
    PROVE  /\ a.at \in 1 .. Len(a.dest_ports) /\ Len(a.dest_ports) \in Nat
           /\ a.dest_ports[a.at] \in Servers
           /\ a.pass \in 1 .. MaxPasses /\ a.via \in Servers \cup {None}
<1>1. /\ a.dest_ports \in Seq(Servers) /\ a.at \in DOMAIN a.dest_ports
      /\ a.pass \in 1 .. MaxPasses /\ a.via \in Servers \cup {None}
  BY DEF Going, Attempt
<1> QED BY <1>1

Phases == {"idle", "probe", "check", "finish", "setup", "done", "gave up",
           "refused"}

(* What the fields of any attempt are.                                     *)
LEMMA AttemptPorts ==
    ASSUME NEW a \in Attempt
    PROVE  /\ a.dest_ports \in Seq(Servers) /\ a.at \in Nat \ {0}
           /\ a.pass \in 1 .. MaxPasses /\ a.phase \in Phases
           /\ a.via \in Servers \cup {None}
           /\ DOMAIN a.dest_ports = 1 .. Len(a.dest_ports)
<1>1. /\ a.dest_ports \in Seq(Servers) /\ a.at \in Nat \ {0}
      /\ a.pass \in 1 .. MaxPasses /\ a.phase \in Phases
      /\ a.via \in Servers \cup {None}
  BY DEF Attempt, Phases
<1> QED BY <1>1

(* The next try is at the next port or in the next pass, after the last of *)
(* which the attempt gives up.                                             *)
LEMMA NextTryType ==
    ASSUME NEW a, Going(a)
    PROVE  /\ Going(NextTry(a))
           /\ NextTry(a).dest_ports = a.dest_ports
           /\ NextTry(a).via = a.via
           /\ \/ /\ NextTry(a).phase = "probe" /\ a.at < Len(a.dest_ports)
                 /\ NextTry(a).at = a.at + 1 /\ NextTry(a).pass = a.pass
              \/ /\ NextTry(a).phase = "probe" /\ a.at = Len(a.dest_ports)
                 /\ NextTry(a).at = 1 /\ NextTry(a).pass = a.pass + 1
              \/ /\ NextTry(a).phase = "gave up" /\ a.at = Len(a.dest_ports)
                 /\ NextTry(a).at = a.at /\ NextTry(a).pass = a.pass
                 /\ a.pass = MaxPasses
<1>1. MaxPasses \in Nat
  BY ReconnectionAssumption
<1>2. /\ a.at \in 1 .. Len(a.dest_ports) /\ Len(a.dest_ports) \in Nat
      /\ a.pass \in 1 .. MaxPasses
  BY AttemptType
<1>3. a \in Attempt /\ a.at \in DOMAIN a.dest_ports
  BY DEF Going
<1>4. CASE a.at < Len(a.dest_ports)
  <2> DEFINE at == a.at + 1
  <2>1. NextTry(a) = [a EXCEPT !.phase = "probe", !.at = at]
    BY <1>4 DEF NextTry
  <2>2. at \in 1 .. Len(a.dest_ports) /\ at \in Nat \ {0}
    BY <1>2, <1>4
  <2>3. at = a.at + 1
    OBVIOUS
  <2> HIDE DEF at
  <2>4. /\ NextTry(a) \in Attempt
        /\ NextTry(a).phase = "probe" /\ NextTry(a).at = at
        /\ NextTry(a).dest_ports = a.dest_ports
        /\ NextTry(a).via = a.via /\ NextTry(a).pass = a.pass
    BY <1>3, <2>1, <2>2 DEF Attempt
  <2> QED BY <1>3, <1>4, <2>2, <2>3, <2>4, AttemptPorts DEF Going
<1>5. CASE ~(a.at < Len(a.dest_ports)) /\ a.pass < MaxPasses
  <2> DEFINE pass == a.pass + 1
             first == 1
  <2>1. NextTry(a) = [a EXCEPT !.phase = "probe", !.at = first, !.pass = pass]
    BY <1>5 DEF NextTry
  <2>2. pass \in 1 .. MaxPasses /\ first \in Nat \ {0}
    BY <1>1, <1>2, <1>5
  <2>3. first \in 1 .. Len(a.dest_ports) /\ a.at = Len(a.dest_ports)
    BY <1>2, <1>5
  <2>4. pass = a.pass + 1 /\ first = 1
    OBVIOUS
  <2> HIDE DEF pass, first
  <2>5. /\ NextTry(a) \in Attempt
        /\ NextTry(a).phase = "probe" /\ NextTry(a).at = first
        /\ NextTry(a).dest_ports = a.dest_ports
        /\ NextTry(a).via = a.via /\ NextTry(a).pass = pass
    BY <1>3, <2>1, <2>2 DEF Attempt
  <2> QED BY <1>3, <2>3, <2>4, <2>5, AttemptPorts DEF Going
<1>6. CASE ~(a.at < Len(a.dest_ports)) /\ ~(a.pass < MaxPasses)
  <2>1. NextTry(a) = [a EXCEPT !.phase = "gave up"]
    BY <1>6 DEF NextTry
  <2>2. /\ NextTry(a) \in Attempt
        /\ NextTry(a).phase = "gave up" /\ NextTry(a).at = a.at
        /\ NextTry(a).dest_ports = a.dest_ports
        /\ NextTry(a).via = a.via /\ NextTry(a).pass = a.pass
    BY <1>3, <2>1 DEF Attempt
  <2>3. a.at = Len(a.dest_ports) /\ a.pass = MaxPasses
    BY <1>1, <1>2, <1>6
  <2> QED BY <1>3, <2>2, <2>3 DEF Going
<1> QED BY <1>4, <1>5, <1>6

(* What an attempt that waits for an answer may make of a datagram.        *)
TriesOn(a, m, b) ==
    /\ b = NextTry(a)
    /\ \/ m.type = "ReconnectionMandate"
       \/ a.phase = "probe" /\ Refers(m) /\ m.leader = None

Checks(a, m, b) ==
    /\ a.phase = "probe" /\ b.phase = "check"
    /\ b.at = a.at /\ b.pass = a.pass
    /\ \/ m.type = "ConnectionAvailable" /\ b.via = Target(a)
       \/ Refers(m) /\ m.leader # None /\ b.via = m.leader

Passes(a, m, b) ==
    /\ a.phase = "check" /\ b.phase = "finish"
    /\ b.at = a.at /\ b.pass = a.pass /\ b.via = a.via
    /\ m.type # "ReconnectionMandate"

(* An attempt that reads a datagram tries the next port, checks a server or*)
(* has passed its check; its ports stay.                                   *)
LEMMA AfterType ==
    ASSUME NEW a, Going(a), a.phase \in {"probe", "check"}, NEW m \in Datagram
    PROVE  /\ Going(After(a, m)) /\ After(a, m).dest_ports = a.dest_ports
           /\ \/ TriesOn(a, m, After(a, m))
              \/ Checks(a, m, After(a, m))
              \/ Passes(a, m, After(a, m))
<1>1. a \in Attempt /\ a.at \in DOMAIN a.dest_ports
  BY DEF Going
<1>2. CASE m.type = "ReconnectionMandate" \/ (a.phase = "probe" /\ Refers(m) /\ m.leader = None)
  <2>1. After(a, m) = NextTry(a)
    BY <1>2 DEF After, Refers
  <2> QED BY <1>2, <2>1, NextTryType DEF TriesOn
<1>3. CASE a.phase = "probe" /\ m.type = "ConnectionAvailable"
  <2> DEFINE v == Target(a)
  <2>1. After(a, m) = [a EXCEPT !.phase = "check", !.via = v]
    BY <1>3 DEF After, Refers
  <2>2. v \in Servers
    BY <1>3, AttemptType DEF Target
  <2>3. v = Target(a)
    OBVIOUS
  <2> HIDE DEF v
  <2>4. /\ After(a, m) \in Attempt
        /\ After(a, m).phase = "check" /\ After(a, m).at = a.at
        /\ After(a, m).dest_ports = a.dest_ports
        /\ After(a, m).via = v /\ After(a, m).pass = a.pass
    BY <1>1, <2>1, <2>2 DEF Attempt
  <2> QED BY <1>1, <1>3, <2>3, <2>4 DEF Going, Checks
<1>4. CASE a.phase = "probe" /\ Refers(m) /\ m.leader # None
  <2> DEFINE v == m.leader
  <2>1. After(a, m) = [a EXCEPT !.phase = "check", !.via = v]
    BY <1>4 DEF After, Refers
  <2>2. v \in Servers
    BY <1>4, DatagramFields
  <2>3. v = m.leader
    OBVIOUS
  <2> HIDE DEF v
  <2>4. /\ After(a, m) \in Attempt
        /\ After(a, m).phase = "check" /\ After(a, m).at = a.at
        /\ After(a, m).dest_ports = a.dest_ports
        /\ After(a, m).via = v /\ After(a, m).pass = a.pass
    BY <1>1, <2>1, <2>2 DEF Attempt
  <2> QED BY <1>1, <1>4, <2>3, <2>4 DEF Going, Checks
<1>5. CASE a.phase = "check" /\ m.type # "ReconnectionMandate"
  <2>1. After(a, m) = [a EXCEPT !.phase = "finish"]
    BY <1>5 DEF After, Refers
  <2>2. /\ After(a, m) \in Attempt
        /\ After(a, m).phase = "finish" /\ After(a, m).at = a.at
        /\ After(a, m).dest_ports = a.dest_ports
        /\ After(a, m).via = a.via /\ After(a, m).pass = a.pass
    BY <1>1, <2>1 DEF Attempt
  <2> QED BY <1>1, <1>5, <2>2 DEF Going, Passes
<1>6. m.type \in {"ConnectionAvailable", "ConnectionNotAvailable", "ReconnectionMandate"}
  BY DatagramFields
<1> QED BY <1>2, <1>3, <1>4, <1>5, <1>6 DEF Refers

(* An attempt whose phase changes.                                         *)
LEMMA PhaseChange ==
    ASSUME NEW a \in Attempt, NEW p \in Phases, NEW b, b = [a EXCEPT !.phase = p]
    PROVE  /\ b \in Attempt /\ b.phase = p /\ b.at = a.at
           /\ b.dest_ports = a.dest_ports /\ b.via = a.via /\ b.pass = a.pass
BY DEF Attempt, Phases

(* Every server is in the configuration.                                   *)
LEMMA Configured ==
    /\ Configuration \in Seq(Servers) /\ Configuration # <<>>
    /\ DOMAIN Configuration = 1 .. Len(Configuration)
<1>1. PICK s : s \in Servers
  BY ReconnectionAssumption
<1>2. PICK k \in DOMAIN Configuration : Configuration[k] = s
  BY <1>1, ReconnectionAssumption
<1>3. Configuration \in Seq(Servers)
  BY ReconnectionAssumption
<1> QED BY <1>2, <1>3

(* What an idle attempt is.                                                *)
LEMMA IdleType ==
    /\ Idle \in Attempt /\ Idle.phase = "idle" /\ Idle.pass = 1
    /\ Idle.at = 1 /\ Idle.via = None
<1>1. 1 \in 1 .. MaxPasses /\ <<>> \in Seq(Servers) /\ 1 \in Nat \ {0}
  BY ReconnectionAssumption
<1> QED BY <1>1 DEF Idle, Attempt

(* A fresh attempt probes the first of its ports, in the first pass.       *)
LEMMA FreshType ==
    ASSUME NEW ports \in Seq(Servers), ports # <<>>
    PROVE  /\ Going(Fresh(ports)) /\ Fresh(ports).phase = "probe"
           /\ Fresh(ports).dest_ports = ports /\ Fresh(ports).at = 1
           /\ Fresh(ports).pass = 1 /\ Fresh(ports).via = None
<1>1. Fresh(ports) = [Idle EXCEPT !.phase = "probe", !.dest_ports = ports]
  BY DEF Fresh
<1>2. 1 \in DOMAIN ports
  OBVIOUS
<1>3. /\ Fresh(ports) \in Attempt /\ Fresh(ports).phase = "probe"
      /\ Fresh(ports).dest_ports = ports /\ Fresh(ports).at = Idle.at
      /\ Fresh(ports).pass = Idle.pass /\ Fresh(ports).via = Idle.via
  BY <1>1, IdleType DEF Attempt
<1> QED BY <1>2, <1>3, IdleType DEF Going

----------------------------------------------------------------------------
(* The parts of TypeOK that are about attempts, and what changes when one  *)
(* of them does.                                                           *)
AttemptsOK ==
    /\ attempt \in [Attempts -> Attempt]
    /\ \A i \in Attempts : attempt[i].phase # "idle" =>
           attempt[i].at \in DOMAIN attempt[i].dest_ports

(* One attempt is replaced by one that goes on.                            *)
LEMMA OneAttempt ==
    ASSUME AttemptsOK, NEW i, NEW b, Going(b),
           attempt' = [attempt EXCEPT ![i] = b]
    PROVE  /\ AttemptsOK'
           /\ \A j \in Attempts : attempt'[j] = IF j = i THEN b ELSE attempt[j]
<1>1. b \in Attempt /\ b.at \in DOMAIN b.dest_ports
  BY DEF Going
<1>2. \A j \in Attempts : attempt'[j] = IF j = i THEN b ELSE attempt[j]
  BY DEF AttemptsOK
<1>3. attempt' \in [Attempts -> Attempt]
  BY <1>1 DEF AttemptsOK
<1> QED BY <1>1, <1>2, <1>3 DEF AttemptsOK

(* Whoever is not idle stands at a port of its list.                       *)
LEMMA GoingOn ==
    ASSUME AttemptsOK, NEW i \in Attempts, attempt[i].phase # "idle"
    PROVE  Going(attempt[i])
BY DEF AttemptsOK, Going

(* The phase of one attempt changes.                                       *)
LEMMA OnePhase ==
    ASSUME AttemptsOK, NEW i \in Attempts, NEW p \in Phases,
           attempt[i].phase # "idle",
           attempt' = [attempt EXCEPT ![i].phase = p]
    PROVE  /\ AttemptsOK'
           /\ \A j \in Attempts \ {i} : attempt'[j] = attempt[j]
           /\ attempt'[i].phase = p /\ attempt'[i].at = attempt[i].at
           /\ attempt'[i].dest_ports = attempt[i].dest_ports
           /\ attempt'[i].pass = attempt[i].pass
           /\ attempt'[i].via = attempt[i].via
<1> DEFINE b == [attempt[i] EXCEPT !.phase = p]
<1>1. Going(attempt[i])
  BY GoingOn
<1>2. attempt[i] \in Attempt
  BY <1>1 DEF Going
<1>3. b = [attempt[i] EXCEPT !.phase = p]
  OBVIOUS
<1>4. attempt' = [attempt EXCEPT ![i] = b]
  BY DEF AttemptsOK
<1> HIDE DEF b
<1>5. /\ b \in Attempt /\ b.phase = p /\ b.at = attempt[i].at
      /\ b.dest_ports = attempt[i].dest_ports /\ b.via = attempt[i].via
      /\ b.pass = attempt[i].pass
  BY <1>2, <1>3, PhaseChange
<1>6. Going(b)
  BY <1>1, <1>5 DEF Going
<1>7. AttemptsOK' /\ \A j \in Attempts : attempt'[j] = IF j = i THEN b ELSE attempt[j]
  BY <1>4, <1>6, OneAttempt
<1> QED BY <1>5, <1>7

(* A probe is counted where it arrives.                                    *)
LEMMA ProbingType ==
    ASSUME asked \in [Servers -> Nat], up \subseteq Servers, NEW s
    PROVE  /\ Probing(asked, s) \in [Servers -> Nat]
           /\ \A t \in Servers : Probing(asked, s)[t] =
                 IF t = s /\ s \in up THEN asked[t] + 1 ELSE asked[t]
<1>1. CASE s \in up
  <2>1. Probing(asked, s) = [asked EXCEPT ![s] = asked[s] + 1]
    BY <1>1 DEF Probing
  <2>2. \A t \in Servers : Probing(asked, s)[t] =
           IF t = s THEN asked[t] + 1 ELSE asked[t]
    BY <2>1
  <2>3. asked[s] + 1 \in Nat
    BY <1>1
  <2>4. Probing(asked, s) \in [Servers -> Nat]
    BY <2>1, <2>3
  <2> QED BY <1>1, <2>2, <2>4
<1>2. CASE s \notin up
  BY <1>2 DEF Probing
<1> QED BY <1>1, <1>2

(* When an attempt goes on, the others stay and every type is kept.        *)
LEMMA GoOnType ==
    ASSUME AttemptsOK, asked \in [Servers -> Nat], up \subseteq Servers,
           client \in {"starting", "connected", "running", "failed"},
           NEW i, NEW b, Going(b), GoOn(i, b)
    PROVE  /\ AttemptsOK' /\ asked' \in [Servers -> Nat]
           /\ client' \in {"starting", "connected", "running", "failed"}
           /\ \A j \in Attempts : attempt'[j] = IF j = i THEN b ELSE attempt[j]
<1>1. attempt' = [attempt EXCEPT ![i] = b]
  BY DEF GoOn
<1>2. AttemptsOK' /\ \A j \in Attempts : attempt'[j] = IF j = i THEN b ELSE attempt[j]
  BY <1>1, OneAttempt
<1>3. asked' = Probing(asked, Target(b)) \/ asked' = asked
  BY DEF GoOn
<1>4. asked' \in [Servers -> Nat]
  BY <1>3, ProbingType
<1>5. client' \in {"starting", "connected", "running", "failed"}
  BY DEF GoOn
<1> QED BY <1>2, <1>4, <1>5

----------------------------------------------------------------------------
(* What each action of the client does to the attempts.                    *)
First == Head(inbox)
Mandated == First.type = "ReconnectionMandate"
Misread(i) == ~Mandated /\ First.from # Target(attempt[i])

(* The attempt i goes on, is connected, or is refused.                     *)
ReadsOn(i) ==
    /\ \/ TriesOn(attempt[i], First, attempt'[i])
       \/ Checks(attempt[i], First, attempt'[i])
    /\ GoOn(i, attempt'[i])
    /\ inbox' = Tail(inbox) /\ connection' = connection

Ends(i) ==
    /\ attempt[i].phase = "check" /\ ~Mandated
    /\ attempt'[i].at = attempt[i].at /\ attempt'[i].pass = attempt[i].pass
    /\ attempt'[i].via = attempt[i].via
    /\ asked' = asked

Connects(i) ==
    /\ Ends(i)
    /\ attempt'[i].phase = "setup"
    /\ connection = None /\ attempt[i].via \in up
    /\ connection' = attempt[i].via
    /\ client' = IF i = 0 THEN "connected" ELSE client
    /\ inbox' = IF i = 0 THEN <<>> ELSE Tail(inbox)

Refused(i) ==
    /\ Ends(i)
    /\ attempt'[i].phase = "refused"
    /\ ~(connection = None /\ attempt[i].via \in up)
    /\ connection' = connection
    /\ client' = IF i = 0 THEN "failed" ELSE client
    /\ inbox' = Tail(inbox)

(* What try_connection does: the attempt reads the first datagram, and goes*)
(* on, is connected or is refused; nobody else takes part.                 *)
LEMMA TryConnection ==
    ASSUME TypeOK, NEW i \in Attempts, try_connection(i)
    PROVE  /\ inbox # <<>> /\ First \in Datagram
           /\ attempt[i].phase \in {"probe", "check"} /\ Going(attempt[i])
           /\ AttemptsOK' /\ Going(attempt'[i])
           /\ \A j \in Attempts \ {i} : attempt'[j] = attempt[j]
           /\ attempt'[i].dest_ports = attempt[i].dest_ports
           /\ ReadsOn(i) \/ Connects(i) \/ Refused(i)
           /\ UNCHANGED <<serverVars, tcp_sender, crashes, restarts, late>>
           /\ robbed' = IF Mandated \/ Misread(i) THEN robbed + 1 ELSE robbed
           /\ faults' = faults \cup (IF Mandated THEN {"mandate misread"} ELSE {})
                               \cup (IF Misread(i) THEN {"misread"} ELSE {})
<1> DEFINE a == attempt[i]
           b == After(a, First)
<1>1. inbox # <<>> /\ a.phase \in {"probe", "check"} /\ AttemptsOK
  BY DEF try_connection, Awaits, TypeOK, AttemptsOK
<1>2. First \in Datagram
  <2>1. inbox \in Seq(Datagram)
    BY DEF TypeOK
  <2> QED BY <1>1, <2>1, Inbox DEF First
<1>3. Going(a)
  BY <1>1, GoingOn
<1>4. /\ \/ b.phase = "finish" /\ finish_connection(i, b)
         \/ /\ b.phase # "finish" /\ GoOn(i, b)
            /\ inbox' = Tail(inbox) /\ UNCHANGED connection
      /\ robbed' = IF Mandated \/ Misread(i) THEN robbed + 1 ELSE robbed
      /\ faults' = faults \cup (IF Mandated THEN {"mandate misread"} ELSE {})
                          \cup (IF Misread(i) THEN {"misread"} ELSE {})
      /\ UNCHANGED <<serverVars, tcp_sender, crashes, restarts, late>>
  BY DEF try_connection, First, Mandated, Misread
<1>5. /\ Going(b) /\ b.dest_ports = a.dest_ports
      /\ TriesOn(a, First, b) \/ Checks(a, First, b) \/ Passes(a, First, b)
  BY <1>1, <1>2, <1>3, AfterType
<1> HIDE DEF b
<1>6. CASE b.phase # "finish" /\ GoOn(i, b)
           /\ inbox' = Tail(inbox) /\ UNCHANGED connection
  <2>1. attempt' = [attempt EXCEPT ![i] = b]
    BY <1>6 DEF GoOn
  <2>2. AttemptsOK' /\ \A j \in Attempts : attempt'[j] = IF j = i THEN b ELSE attempt[j]
    <3>1. AttemptsOK /\ Going(b)
      BY <1>1, <1>5
    <3> QED BY <2>1, <3>1, OneAttempt
  <2>3. attempt'[i] = b
    BY <2>2
  <2>4. TriesOn(a, First, b) \/ Checks(a, First, b)
    BY <1>5, <1>6 DEF Passes
  <2>5. ReadsOn(i)
    BY <1>6, <2>3, <2>4 DEF ReadsOn
  <2> QED BY <1>1, <1>2, <1>3, <1>4, <1>5, <2>2, <2>3, <2>5
<1>7. CASE b.phase = "finish" /\ finish_connection(i, b)
  <2> DEFINE done == connection = None /\ b.via \in up
             p == IF done THEN "setup" ELSE "refused"
             c == [b EXCEPT !.phase = p]
  <2>1. c = [b EXCEPT !.phase = p] /\ p \in Phases
    BY DEF Phases
  <2>2. attempt' = [attempt EXCEPT ![i] = c]
    BY <1>7 DEF finish_connection
  <2>3. Passes(a, First, b)
    <3>1. ~TriesOn(a, First, b)
      BY <1>3, <1>7, NextTryType DEF TriesOn
    <3> QED BY <1>5, <1>7, <3>1 DEF Checks
  <2>4. p = IF done THEN "setup" ELSE "refused"
    OBVIOUS
  <2> HIDE DEF p, c
  <2>5. b \in Attempt /\ b.at \in DOMAIN b.dest_ports
    BY <1>5 DEF Going
  <2>6. /\ c \in Attempt /\ c.phase = p /\ c.at = b.at
        /\ c.dest_ports = b.dest_ports /\ c.via = b.via /\ c.pass = b.pass
    BY <2>1, <2>5, PhaseChange
  <2>7. Going(c)
    BY <2>5, <2>6 DEF Going
  <2>8. AttemptsOK' /\ \A j \in Attempts : attempt'[j] = IF j = i THEN c ELSE attempt[j]
    <3>1. AttemptsOK
      BY <1>1
    <3> QED BY <2>2, <2>7, <3>1, OneAttempt
  <2>9. attempt'[i] = c
    BY <2>8
  <2>10. Ends(i)
    BY <1>7, <2>3, <2>6, <2>9 DEF Ends, Passes, Mandated, finish_connection
  <2>11. b.via = a.via
    BY <2>3 DEF Passes
  <2>12. CASE done
    <3>1. Connects(i)
      BY <1>7, <2>4, <2>6, <2>9, <2>10, <2>11, <2>12 DEF finish_connection, Connects
    <3> QED BY <1>1, <1>2, <1>3, <1>4, <1>5, <2>6, <2>7, <2>8, <2>9, <3>1
  <2>13. CASE ~done
    <3>1. Refused(i)
      BY <1>7, <2>4, <2>6, <2>9, <2>10, <2>11, <2>13 DEF finish_connection, Refused
    <3> QED BY <1>1, <1>2, <1>3, <1>4, <1>5, <2>6, <2>7, <2>8, <2>9, <3>1
  <2> QED BY <2>12, <2>13
<1> QED BY <1>4, <1>6, <1>7

(* What a timeout does: the attempt tries the next port.                   *)
LEMMA TimedOut ==
    ASSUME TypeOK, NEW i \in Attempts, Timeout(i)
    PROVE  /\ attempt[i].phase \in {"probe", "check"} /\ Going(attempt[i])
           /\ AttemptsOK' /\ Going(attempt'[i])
           /\ \A j \in Attempts \ {i} : attempt'[j] = attempt[j]
           /\ attempt'[i] = NextTry(attempt[i]) /\ GoOn(i, attempt'[i])
<1> DEFINE b == NextTry(attempt[i])
<1>1. attempt[i].phase \in {"probe", "check"} /\ GoOn(i, b) /\ AttemptsOK
  BY DEF Timeout, Awaits, TypeOK, AttemptsOK
<1>2. Going(attempt[i])
  BY <1>1, GoingOn
<1>3. Going(b)
  BY <1>2, NextTryType
<1> HIDE DEF b
<1>4. attempt' = [attempt EXCEPT ![i] = b]
  BY <1>1 DEF GoOn
<1>5. AttemptsOK' /\ \A j \in Attempts : attempt'[j] = IF j = i THEN b ELSE attempt[j]
  <2>1. AttemptsOK /\ Going(b)
    BY <1>1, <1>3
  <2> QED BY <1>4, <2>1, OneAttempt
<1>6. attempt'[i] = b
  BY <1>5
<1> QED BY <1>1, <1>2, <1>3, <1>5, <1>6 DEF b

(* The attempt that a mandate begins: an idle one, if there is any.        *)
NextIdle == Min({j \in Mandates : attempt[j].phase = "idle"})

(* What a mandate that the gateway reads does: the first idle attempt      *)
(* begins, with its sender as its only port.                               *)
LEMMA Reconnecting ==
    ASSUME TypeOK, ReconnectToNewPedidosRust
    PROVE  /\ inbox # <<>> /\ First \in Datagram /\ Mandated
           /\ inbox' = Tail(inbox) /\ client = "running"
           /\ GoOn(NextIdle, Fresh(<<First.from>>))
           /\ Going(Fresh(<<First.from>>))
           /\ Fresh(<<First.from>>).phase = "probe"
           /\ Fresh(<<First.from>>).dest_ports = <<First.from>>
           /\ Fresh(<<First.from>>).at = 1 /\ Fresh(<<First.from>>).pass = 1
           /\ AttemptsOK' /\ client' = client
           /\ \A j \in Attempts :
                 attempt'[j] = IF j = NextIdle THEN Fresh(<<First.from>>) ELSE attempt[j]
<1> DEFINE b == Fresh(<<First.from>>)
<1>1. /\ inbox # <<>> /\ Mandated /\ inbox' = Tail(inbox) /\ client = "running"
      /\ GoOn(NextIdle, b) /\ AttemptsOK
  BY DEF ReconnectToNewPedidosRust, TypeOK, AttemptsOK, NextIdle, First, Mandated
<1>2. inbox \in Seq(Datagram)
  BY DEF TypeOK
<1>3. First \in Datagram
  BY <1>1, <1>2, Inbox DEF First
<1>4. <<First.from>> \in Seq(Servers) /\ <<First.from>> # <<>>
  BY <1>3, DatagramFields
<1>5. /\ Going(b) /\ b.phase = "probe" /\ b.dest_ports = <<First.from>>
      /\ b.at = 1 /\ b.pass = 1
  BY <1>4, FreshType
<1> HIDE DEF b
<1>6. PICK k : k = NextIdle
  OBVIOUS
<1>7. PICK c : c = b
  OBVIOUS
<1>8. attempt' = [attempt EXCEPT ![k] = c] /\ client' = client /\ Going(c)
  BY <1>1, <1>5, <1>6, <1>7 DEF GoOn
<1>9. AttemptsOK' /\ \A j \in Attempts : attempt'[j] = IF j = k THEN c ELSE attempt[j]
  BY <1>1, <1>8, OneAttempt
<1> QED BY <1>1, <1>3, <1>5, <1>6, <1>7, <1>8, <1>9 DEF b

----------------------------------------------------------------------------
(* The type invariant, in parts.                                           *)
Clients == {"starting", "connected", "running", "failed"}
Faults == {"start disturbed", "misread", "mandate misread", "not told",
           "told again", "restart"}

ServersOK ==
    /\ up \subseteq Servers
    /\ leader \in [Servers -> Servers \cup {None}]
    /\ registered \in BOOLEAN
    /\ mandates \in 0 .. MaxMandates

BoundsOK ==
    /\ crashes \in 0 .. MaxCrashes /\ robbed \in Nat
    /\ restarts \in Nat /\ late \in Nat /\ restarts + late <= MaxDisturbances
    /\ faults \subseteq Faults

(* The type invariant, in the parts that the steps below disturb.          *)
LEMMA TypeParts ==
    TypeOK <=> /\ ServersOK /\ AttemptsOK /\ BoundsOK
               /\ asked \in [Servers -> Nat]
               /\ inbox \in Seq(Datagram) /\ client \in Clients
               /\ connection \in Servers \cup {None}
               /\ tcp_sender \in Servers \cup {None}
BY DEF TypeOK, ServersOK, AttemptsOK, BoundsOK, Clients, Faults

(* The same of the next state.                                             *)
LEMMA TypePartsNext ==
    ServersOK' /\ AttemptsOK' /\ BoundsOK' /\ (asked \in [Servers -> Nat])'
    /\ (inbox \in Seq(Datagram))' /\ (client \in Clients)'
    /\ (connection \in Servers \cup {None})'
    /\ (tcp_sender \in Servers \cup {None})'
        => TypeOK'
BY DEF TypeOK, ServersOK, AttemptsOK, BoundsOK, Clients, Faults

(* With it, the first attempt begins when the client does.                 *)
TypeInv == TypeOK /\ attempt[0].phase # "idle"

(* The types hold when the client starts.                                  *)
LEMMA InitType == Init => TypeInv
<1> SUFFICES ASSUME Init PROVE TypeInv
  OBVIOUS
<1> DEFINE first == Fresh(Configuration)
<1>1. PICK l \in Servers :
         /\ up = Servers
         /\ leader \in [Servers -> {l, None}] /\ leader[l] = l
         /\ registered \in BOOLEAN /\ mandates = 0
         /\ client = "starting"
         /\ attempt = [i \in Attempts |-> IF i = 0 THEN first ELSE Idle]
         /\ asked = [s \in Servers |-> IF s = Head(Configuration) THEN 1 ELSE 0]
         /\ inbox = <<>>
         /\ connection = None /\ tcp_sender = None
         /\ crashes = 0 /\ restarts = 0 /\ late = 0 /\ robbed = 0
         /\ faults = {}
  BY DEF Init
<1>2. Configuration \in Seq(Servers) /\ Configuration # <<>>
  BY Configured
<1>3. Going(first) /\ first.phase = "probe"
  BY <1>2, FreshType
<1> HIDE DEF first
<1>4. ServersOK /\ BoundsOK /\ inbox \in Seq(Datagram) /\ client \in Clients
  BY <1>1, ReconnectionAssumption DEF ServersOK, BoundsOK, Clients
<1>5. asked \in [Servers -> Nat]
  BY <1>1
<1>6. AttemptsOK
  BY <1>1, <1>3, IdleType DEF AttemptsOK, Going
<1>7. attempt[0].phase # "idle"
  BY <1>1, <1>3 DEF Attempts
<1> QED BY <1>1, <1>4, <1>5, <1>6, <1>7, TypeParts DEF TypeInv

(* Every step keeps the types.                                             *)
LEMMA TypeStep == TypeInv /\ [Next]_vars => TypeInv'
<1> SUFFICES ASSUME TypeInv, [Next]_vars PROVE TypeInv'
  OBVIOUS
<1> USE ReconnectionAssumption
<1>0. /\ ServersOK /\ AttemptsOK /\ BoundsOK
      /\ asked \in [Servers -> Nat] /\ inbox \in Seq(Datagram)
      /\ client \in Clients /\ connection \in Servers \cup {None}
      /\ tcp_sender \in Servers \cup {None}
      /\ TypeOK /\ attempt[0].phase # "idle" /\ 0 \in Attempts
  BY TypeParts DEF TypeInv, Attempts
<1>1. ASSUME NEW i \in Attempts, try_connection(i) PROVE TypeInv'
  <2>1. /\ inbox # <<>> /\ AttemptsOK' /\ Going(attempt'[i])
        /\ ReadsOn(i) \/ Connects(i) \/ Refused(i)
        /\ UNCHANGED <<serverVars, tcp_sender, crashes, restarts, late>>
        /\ \A j \in Attempts \ {i} : attempt'[j] = attempt[j]
    BY <1>0, <1>1, TryConnection
  <2>2. Tail(inbox) \in Seq(Datagram)
    BY <1>0, <2>1, Inbox
  <2>3. ServersOK' /\ tcp_sender' \in Servers \cup {None}
    BY <1>0, <2>1 DEF ServersOK, serverVars
  <2>4. robbed' \in Nat /\ faults' \subseteq Faults
    <3>1. /\ robbed' = IF Mandated \/ Misread(i) THEN robbed + 1 ELSE robbed
          /\ faults' = faults \cup (IF Mandated THEN {"mandate misread"} ELSE {})
                              \cup (IF Misread(i) THEN {"misread"} ELSE {})
      BY <1>0, <1>1, TryConnection
    <3>2. robbed \in Nat /\ faults \subseteq Faults
      BY <1>0 DEF BoundsOK
    <3>3. robbed' = robbed \/ robbed' = robbed + 1
      BY <3>1
    <3>4. robbed' \in Nat
      BY <3>2, <3>3
    <3>5. faults' \subseteq Faults
      BY <3>1, <3>2 DEF Faults
    <3> QED BY <3>4, <3>5
  <2>5. BoundsOK'
    BY <1>0, <2>1, <2>4 DEF BoundsOK
  <2>6. attempt'[i].phase # "idle"
    <3>1. Going(attempt[i])
      BY <1>0, <1>1, TryConnection
    <3> QED BY <2>1, <3>1, NextTryType DEF ReadsOn, TriesOn, Checks, Connects, Refused
  <2>7. attempt'[0].phase # "idle"
    BY <1>0, <2>1, <2>6
  <2>8. CASE ReadsOn(i)
    <3>1. GoOn(i, attempt'[i]) /\ inbox' = Tail(inbox) /\ connection' = connection
      BY <2>8 DEF ReadsOn
    <3>2. PICK b : b = attempt'[i]
      OBVIOUS
    <3>3. asked' \in [Servers -> Nat] /\ client' \in Clients
      BY <1>0, <2>1, <3>1, <3>2, GoOnType DEF Clients, ServersOK
    <3>4. TypeOK'
      BY <1>0, <2>1, <2>2, <2>3, <2>5, <3>1, <3>3, TypePartsNext
    <3> QED BY <2>7, <3>4 DEF TypeInv
  <2>9. CASE Connects(i) \/ Refused(i)
    <3>1. /\ asked' = asked /\ client' \in Clients
          /\ connection' \in Servers \cup {None}
          /\ inbox' = <<>> \/ inbox' = Tail(inbox)
      BY <1>0, <2>9 DEF Connects, Refused, Ends, Clients, ServersOK
    <3>2. inbox' \in Seq(Datagram)
      <4>1. <<>> \in Seq(Datagram)
        OBVIOUS
      <4> QED BY <2>2, <3>1, <4>1
    <3>3. TypeOK'
      BY <1>0, <2>1, <2>3, <2>5, <3>1, <3>2, TypePartsNext
    <3> QED BY <2>7, <3>3 DEF TypeInv
  <2> QED BY <2>1, <2>8, <2>9
<1>2. ASSUME NEW i \in Attempts, Timeout(i) PROVE TypeInv'
  <2>1. /\ AttemptsOK' /\ Going(attempt[i]) /\ Going(attempt'[i])
        /\ GoOn(i, attempt'[i]) /\ attempt'[i] = NextTry(attempt[i])
        /\ \A j \in Attempts \ {i} : attempt'[j] = attempt[j]
    BY <1>0, <1>2, TimedOut
  <2>2. PICK b : b = attempt'[i]
    OBVIOUS
  <2>3. asked' \in [Servers -> Nat] /\ client' \in Clients
    BY <1>0, <2>1, <2>2, GoOnType DEF Clients, ServersOK
  <2>4. /\ UNCHANGED <<serverVars, inbox, connection, tcp_sender, crashes,
                       restarts, robbed, faults>>
        /\ late' = late \/ (late' = late + 1 /\ restarts + late < MaxDisturbances)
    BY <1>2 DEF Timeout
  <2>5. ServersOK' /\ BoundsOK'
    <3>1. ServersOK'
      BY <1>0, <2>4 DEF ServersOK, serverVars
    <3>2. BoundsOK'
      <4>1. /\ restarts \in Nat /\ late \in Nat /\ restarts + late <= MaxDisturbances
            /\ MaxDisturbances \in Nat
        BY <1>0, ReconnectionAssumption DEF BoundsOK
      <4>2. late' \in Nat /\ restarts + late' <= MaxDisturbances
        BY <2>4, <4>1
      <4> QED BY <1>0, <2>4, <4>1, <4>2 DEF BoundsOK
    <3> QED BY <3>1, <3>2
  <2>6. attempt'[0].phase # "idle"
    BY <1>0, <2>1, NextTryType
  <2>7. TypeOK'
    BY <1>0, <2>1, <2>3, <2>4, <2>5, TypePartsNext
  <2> QED BY <2>6, <2>7 DEF TypeInv
<1>3. ASSUME NEW i \in Attempts, SetupReconnection(i) \/ (Start /\ i = 0)
      PROVE TypeInv'
  <2>1. /\ attempt[i].phase # "idle"
        /\ attempt' = [attempt EXCEPT ![i].phase = "done"]
        /\ tcp_sender' = attempt[i].via
        /\ registered' = (registered \/ connection # None)
        /\ client' \in Clients
        /\ UNCHANGED <<up, leader, mandates, asked, inbox, connection, bounds>>
    BY <1>0, <1>3 DEF SetupReconnection, Start, Clients
  <2>2. /\ AttemptsOK' /\ attempt'[i].phase = "done"
        /\ \A j \in Attempts \ {i} : attempt'[j] = attempt[j]
    BY <1>0, <2>1, OnePhase DEF Phases
  <2>3. attempt[i].via \in Servers \cup {None}
    BY <1>0, AttemptPorts DEF AttemptsOK
  <2>4. ServersOK' /\ BoundsOK'
    BY <1>0, <2>1 DEF ServersOK, BoundsOK, bounds
  <2>5. TypeOK'
    BY <1>0, <2>1, <2>2, <2>3, <2>4, TypePartsNext
  <2>6. attempt'[0].phase # "idle"
    BY <1>0, <2>2
  <2> QED BY <2>5, <2>6 DEF TypeInv
<1>4. ASSUME ReconnectToNewPedidosRust PROVE TypeInv'
  <2> DEFINE b == Fresh(<<First.from>>)
  <2>1. /\ inbox # <<>> /\ inbox' = Tail(inbox) /\ GoOn(NextIdle, b)
        /\ Going(b) /\ b.phase = "probe" /\ AttemptsOK' /\ client' = client
        /\ \A j \in Attempts : attempt'[j] = IF j = NextIdle THEN b ELSE attempt[j]
    BY <1>0, <1>4, Reconnecting
  <2>2. UNCHANGED <<serverVars, connection, bounds>> /\ tcp_sender' = None
    BY <1>4 DEF ReconnectToNewPedidosRust
  <2> HIDE DEF b
  <2>3. PICK k : k = NextIdle
    OBVIOUS
  <2>4. PICK c : c = b
    OBVIOUS
  <2>5. asked' \in [Servers -> Nat]
    BY <1>0, <2>1, <2>3, <2>4, GoOnType DEF Clients, ServersOK
  <2>6. inbox' \in Seq(Datagram)
    BY <1>0, <2>1, Inbox
  <2>7. ServersOK' /\ BoundsOK'
    BY <1>0, <2>2 DEF ServersOK, BoundsOK, serverVars, bounds
  <2>8. TypeOK'
    BY <1>0, <2>1, <2>2, <2>5, <2>6, <2>7, TypePartsNext
  <2>9. attempt'[0].phase # "idle"
    BY <1>0, <2>1
  <2> QED BY <2>8, <2>9 DEF TypeInv
<1>5. ASSUME Unrecognized PROVE TypeInv'
  <2>1. /\ inbox # <<>> /\ inbox' = Tail(inbox) /\ robbed' = robbed + 1
        /\ UNCHANGED <<serverVars, asked, client, attempt, connection,
                       tcp_sender, crashes, restarts, late, faults>>
    BY <1>5 DEF Unrecognized
  <2>2. inbox' \in Seq(Datagram)
    BY <1>0, <2>1, Inbox
  <2>3. ServersOK' /\ BoundsOK' /\ AttemptsOK'
    BY <1>0, <2>1 DEF ServersOK, BoundsOK, serverVars, AttemptsOK
  <2> QED BY <1>0, <2>1, <2>2, <2>3, TypePartsNext DEF TypeInv
<1>6. ASSUME NEW s \in Servers, send_connection_answer(s) PROVE TypeInv'
  <2>1. /\ asked[s] > 0 /\ asked' = [asked EXCEPT ![s] = asked[s] - 1]
        /\ inbox' = Delivered(AnswerOf(s))
        /\ UNCHANGED <<serverVars, client, attempt, connection, tcp_sender, bounds>>
    BY <1>6 DEF send_connection_answer
  <2>2. asked[s] - 1 \in Nat
    BY <1>0, <2>1
  <2>3. asked' \in [Servers -> Nat]
    BY <1>0, <2>1, <2>2
  <2>4. AnswerOf(s) \in Datagram
    BY <1>0, AnswerType DEF ServersOK
  <2>5. inbox' \in Seq(Datagram)
    BY <1>0, <2>1, <2>4, Arrival
  <2>6. ServersOK' /\ BoundsOK' /\ AttemptsOK'
    BY <1>0, <2>1 DEF ServersOK, BoundsOK, serverVars, bounds, AttemptsOK
  <2> QED BY <1>0, <2>1, <2>3, <2>5, <2>6, TypePartsNext DEF TypeInv
<1>7. ASSUME NEW s \in Servers, TakeOver(s) \/ ElectedAgain(s) PROVE TypeInv'
  <2>1. /\ NotifyAllClientsIAmLeader(s)
        /\ leader' = leader \/ leader' = [leader EXCEPT ![s] = s]
        /\ faults' \subseteq faults \cup Faults
        /\ UNCHANGED <<up, registered, asked, client, attempt, connection,
                       tcp_sender, crashes, restarts, late, robbed>>
    BY <1>7 DEF TakeOver, ElectedAgain, Faults
  <2>2. Mandate(s) \in Datagram
    BY DEF Mandate, Datagram
  <2>3. /\ mandates' \in 0 .. MaxMandates
        /\ inbox' = inbox \/ inbox' = Delivered(Mandate(s))
    BY <1>0, <2>1 DEF NotifyAllClientsIAmLeader, Mandate, ServersOK
  <2>4. inbox' \in Seq(Datagram)
    BY <1>0, <2>2, <2>3, Arrival
  <2>5. leader' \in [Servers -> Servers \cup {None}]
    BY <1>0, <2>1 DEF ServersOK
  <2>6. ServersOK' /\ BoundsOK' /\ AttemptsOK'
    BY <1>0, <2>1, <2>3, <2>5 DEF ServersOK, BoundsOK, AttemptsOK
  <2> QED BY <1>0, <2>1, <2>4, <2>6, TypePartsNext DEF TypeInv
<1>8. ASSUME NEW s \in Servers, NEW l \in Servers, GotLeader(s, l) PROVE TypeInv'
  <2>1. /\ leader' = [leader EXCEPT ![s] = l]
        /\ UNCHANGED <<up, registered, mandates, asked, inbox, client, attempt,
                       connection, tcp_sender, bounds>>
    BY <1>8 DEF GotLeader
  <2>2. ServersOK' /\ BoundsOK' /\ AttemptsOK'
    BY <1>0, <2>1 DEF ServersOK, BoundsOK, bounds, AttemptsOK
  <2> QED BY <1>0, <2>1, <2>2, TypePartsNext DEF TypeInv
<1>9. ASSUME NEW s \in Servers, Crash(s) PROVE TypeInv'
  <2>1. /\ crashes < MaxCrashes /\ crashes' = crashes + 1
        /\ up' = up \ {s} /\ leader' = [leader EXCEPT ![s] = None]
        /\ asked' = [asked EXCEPT ![s] = 0]
        /\ connection' \in {None, connection}
        /\ faults' \subseteq faults \cup {"start disturbed"}
        /\ UNCHANGED <<registered, mandates, inbox, client, attempt, tcp_sender,
                       restarts, late, robbed>>
    BY <1>9 DEF Crash
  <2>2. leader' \in [Servers -> Servers \cup {None}] /\ asked' \in [Servers -> Nat]
    BY <1>0, <2>1 DEF ServersOK
  <2>3. ServersOK' /\ BoundsOK' /\ AttemptsOK'
    <3>1. ServersOK'
      BY <1>0, <2>1, <2>2 DEF ServersOK
    <3>2. faults' \subseteq Faults
      BY <1>0, <2>1 DEF BoundsOK, Faults
    <3>3. /\ restarts \in Nat /\ late \in Nat /\ restarts + late <= MaxDisturbances
          /\ crashes \in 0 .. MaxCrashes /\ robbed \in Nat /\ MaxCrashes \in Nat
      BY <1>0 DEF BoundsOK
    <3>4. crashes' \in 0 .. MaxCrashes
      <4> HIDE ReconnectionAssumption
      <4>1. crashes < MaxCrashes /\ crashes' = crashes + 1
        BY <2>1
      <4> QED BY <3>3, <4>1
    <3>5. BoundsOK'
      BY <2>1, <3>2, <3>3, <3>4 DEF BoundsOK
    <3>6. AttemptsOK'
      BY <1>0, <2>1 DEF AttemptsOK
    <3> QED BY <3>1, <3>5, <3>6
  <2> QED BY <1>0, <2>1, <2>2, <2>3, TypePartsNext DEF TypeInv
<1>10. ASSUME NEW s \in Servers, Restart(s) PROVE TypeInv'
  <2>1. /\ restarts + late < MaxDisturbances /\ restarts' = restarts + 1
        /\ up' = up \cup {s} /\ faults' = faults \cup {"restart"}
        /\ UNCHANGED <<leader, registered, mandates, asked, inbox, client,
                       attempt, connection, tcp_sender, crashes, late, robbed>>
    BY <1>10 DEF Restart
  <2>2. ServersOK' /\ BoundsOK' /\ AttemptsOK'
    <3>1. ServersOK'
      BY <1>0, <2>1 DEF ServersOK
    <3>2. faults' \subseteq Faults
      BY <1>0, <2>1 DEF BoundsOK, Faults
    <3>3. /\ restarts \in Nat /\ late \in Nat /\ MaxDisturbances \in Nat
          /\ crashes \in 0 .. MaxCrashes /\ robbed \in Nat
      BY <1>0 DEF BoundsOK
    <3>4. restarts' \in Nat /\ late' \in Nat /\ restarts' + late' <= MaxDisturbances
      BY <2>1, <3>3
    <3>5. crashes' \in 0 .. MaxCrashes /\ robbed' \in Nat
      BY <2>1, <3>3
    <3>6. BoundsOK'
      BY <3>2, <3>4, <3>5 DEF BoundsOK
    <3>7. AttemptsOK'
      BY <1>0, <2>1 DEF AttemptsOK
    <3> QED BY <3>1, <3>6, <3>7
  <2> QED BY <1>0, <2>1, <2>2, TypePartsNext DEF TypeInv
<1>11. CASE UNCHANGED vars
  <2>1. UNCHANGED <<serverVars, asked, inbox, client, attempt, connection,
                    tcp_sender, bounds>>
    BY <1>11 DEF vars
  <2>2. ServersOK' /\ BoundsOK' /\ AttemptsOK'
    BY <1>0, <2>1 DEF ServersOK, BoundsOK, AttemptsOK, serverVars, bounds
  <2> QED BY <1>0, <2>1, <2>2, TypePartsNext DEF TypeInv
<1> QED BY <1>0, <1>1, <1>2, <1>3, <1>4, <1>5, <1>6, <1>7, <1>8, <1>9, <1>10,
           <1>11 DEF Next, Server

(* The types are right: an attempt that is not idle is at one of its ports,*)
(* the counters are within their bounds.                                   *)
THEOREM TypeCorrect == Spec => []TypeOK
<1>1. Init => TypeInv
  BY InitType
<1>2. TypeInv /\ [Next]_vars => TypeInv'
  BY TypeStep
<1>3. TypeInv => TypeOK
  BY DEF TypeInv
<1> QED BY <1>1, <1>2, <1>3, PTL DEF Spec

----------------------------------------------------------------------------
(* Who leads.  A server that is down follows nobody, and there are never   *)
(* two that lead.                                                          *)
LeadInv ==
    /\ \A s \in Servers \ up : leader[s] = None
    /\ \A s, t \in Servers : leader[s] = s /\ leader[t] = t => s = t

(* The servers that lead for as long as they are up.                       *)
Lasting == {l \in Servers : l \in up => leader[l] = l}

(* What a step may do to the servers.                                      *)
LEMMA ServersNext ==
    ASSUME [Next]_vars
    PROVE  \/ UNCHANGED <<up, leader, restarts>>
           \/ \E s \in Servers : \/ TakeOver(s) \/ Crash(s) \/ Restart(s)
                                 \/ \E l \in Servers : GotLeader(s, l)
<1>1. ASSUME NEW i \in Attempts, try_connection(i) PROVE UNCHANGED <<up, leader, restarts>>
  BY <1>1 DEF try_connection, serverVars
<1>2. ASSUME NEW i \in Attempts, Timeout(i) PROVE UNCHANGED <<up, leader, restarts>>
  BY <1>2 DEF Timeout, serverVars
<1>3. ASSUME NEW i \in Attempts, SetupReconnection(i) PROVE UNCHANGED <<up, leader, restarts>>
  BY <1>3 DEF SetupReconnection, bounds
<1>4. CASE Start
  BY <1>4 DEF Start, bounds
<1>5. CASE ReconnectToNewPedidosRust
  BY <1>5 DEF ReconnectToNewPedidosRust, serverVars, bounds
<1>6. CASE Unrecognized
  BY <1>6 DEF Unrecognized, serverVars
<1>7. ASSUME NEW s \in Servers, send_connection_answer(s)
      PROVE UNCHANGED <<up, leader, restarts>>
  BY <1>7 DEF send_connection_answer, serverVars, bounds
<1>8. ASSUME NEW s \in Servers, ElectedAgain(s)
      PROVE UNCHANGED <<up, leader, restarts>>
  BY <1>8 DEF ElectedAgain
<1>9. CASE UNCHANGED vars
  BY <1>9 DEF vars, serverVars, bounds
<1> QED BY <1>1, <1>2, <1>3, <1>4, <1>5, <1>6, <1>7, <1>8, <1>9 DEF Next, Server

(* One server leads when the client starts.                                *)
LEMMA LeadInit == Init => LeadInv
<1> SUFFICES ASSUME Init PROVE LeadInv
  OBVIOUS
<1>1. PICK l \in Servers : up = Servers /\ leader \in [Servers -> {l, None}]
  BY DEF Init
<1> QED BY <1>1, ReconnectionAssumption DEF LeadInv

(* Nobody leads beside another, and nobody that is down leads.             *)
LEMMA LeadStep == TypeInv /\ LeadInv /\ [Next]_vars => LeadInv'
<1> SUFFICES ASSUME TypeInv, LeadInv, [Next]_vars PROVE LeadInv'
  OBVIOUS
<1>0. /\ up \subseteq Servers /\ None \notin Servers
      /\ leader \in [Servers -> Servers \cup {None}]
  BY ReconnectionAssumption DEF TypeInv, TypeOK
<1>1. ASSUME NEW s \in Servers, TakeOver(s) PROVE LeadInv'
  <2>1. /\ up' = up /\ leader' = [leader EXCEPT ![s] = s]
        /\ s \in up /\ \A t \in up : leader[t] # t
    BY <1>1 DEF TakeOver, Leads
  <2> QED BY <1>0, <2>1 DEF LeadInv
<1>2. ASSUME NEW s \in Servers, Crash(s) PROVE LeadInv'
  <2>1. up' = up \ {s} /\ leader' = [leader EXCEPT ![s] = None]
    BY <1>2 DEF Crash
  <2> QED BY <1>0, <2>1 DEF LeadInv
<1>3. ASSUME NEW s \in Servers, Restart(s) PROVE LeadInv'
  <2>1. up' = up \cup {s} /\ leader' = leader
    BY <1>3 DEF Restart
  <2> QED BY <1>0, <2>1 DEF LeadInv
<1>4. ASSUME NEW s \in Servers, NEW l \in Servers, GotLeader(s, l) PROVE LeadInv'
  <2>1. /\ s \in up /\ leader[l] = l /\ leader[s] # l
        /\ up' = up /\ leader' = [leader EXCEPT ![s] = l]
    BY <1>4 DEF GotLeader, Leads
  <2> QED BY <1>0, <2>1 DEF LeadInv
<1>5. CASE UNCHANGED <<up, leader, restarts>>
  BY <1>5 DEF LeadInv
<1> QED BY <1>1, <1>2, <1>3, <1>4, <1>5, ServersNext

(* As long as no server comes back, what lasts does so.                    *)
LEMMA LastingStays ==
    ASSUME TypeInv, LeadInv, [Next]_vars, restarts' = 0
    PROVE  /\ restarts = 0 /\ \A s \in Servers : ~Restart(s)
           /\ up' \subseteq up
           /\ Lasting \subseteq Lasting'
<1>0. /\ up \subseteq Servers /\ None \notin Servers /\ restarts \in Nat
      /\ leader \in [Servers -> Servers \cup {None}]
  BY ReconnectionAssumption DEF TypeInv, TypeOK
<1>1. ASSUME NEW s \in Servers, TakeOver(s)
      PROVE  restarts = 0 /\ up' \subseteq up /\ Lasting \subseteq Lasting'
  <2>1. /\ up' = up /\ leader' = [leader EXCEPT ![s] = s] /\ restarts' = restarts
    BY <1>1 DEF TakeOver
  <2> QED BY <1>0, <2>1 DEF Lasting
<1>2. ASSUME NEW s \in Servers, Crash(s)
      PROVE  restarts = 0 /\ up' \subseteq up /\ Lasting \subseteq Lasting'
  <2>1. /\ up' = up \ {s} /\ leader' = [leader EXCEPT ![s] = None]
        /\ restarts' = restarts
    BY <1>2 DEF Crash
  <2> QED BY <1>0, <2>1 DEF Lasting
<1>3. \A s \in Servers : ~Restart(s)
  BY <1>0 DEF Restart
<1>4. ASSUME NEW s \in Servers, NEW l \in Servers, GotLeader(s, l)
      PROVE  restarts = 0 /\ up' \subseteq up /\ Lasting \subseteq Lasting'
  <2>1. /\ s \in up /\ leader[l] = l /\ leader[s] # l /\ restarts' = restarts
        /\ up' = up /\ leader' = [leader EXCEPT ![s] = l]
    BY <1>4 DEF GotLeader, Leads, bounds
  <2>2. leader[s] # s
    BY <2>1 DEF LeadInv
  <2> QED BY <1>0, <2>1, <2>2 DEF Lasting
<1>5. ASSUME UNCHANGED <<up, leader, restarts>>
      PROVE  restarts = 0 /\ up' \subseteq up /\ Lasting \subseteq Lasting'
  BY <1>5 DEF Lasting
<1> QED BY <1>1, <1>2, <1>3, <1>4, <1>5, ServersNext

----------------------------------------------------------------------------
(* What the client hears, and what it makes of it.                         *)
Heard(m) == IF Refers(m) THEN m.leader \in Lasting \cup {None}
            ELSE m.from \in Lasting

Followed == \A s \in Servers : leader[s] \in Lasting \cup {None}
AllHeard == \A k \in DOMAIN inbox : Heard(inbox[k])
Sought == \A i \in Mandates :
             attempt[i].phase # "idle" => attempt[i].dest_ports[1] \in Lasting
Checked == \A i \in Attempts :
              attempt[i].phase = "check" => attempt[i].via \in Lasting
Kept == connection # None => connection \in Lasting \cap up

(* The servers follow, the mandates come from and the attempts are made to *)
(* servers that last, as long as none comes back; an attempt that took only*)
(* its own answers checks and connects to one that lasts.                  *)
TrueInv ==
    restarts = 0 => /\ Followed /\ AllHeard /\ Sought
                    /\ "misread" \notin faults => Checked /\ Kept

(* What has been said when the client starts is true: nothing.             *)
LEMMA TrueInit == Init => TrueInv
<1> SUFFICES ASSUME Init PROVE TrueInv
  OBVIOUS
<1> DEFINE first == Fresh(Configuration)
<1>1. PICK l \in Servers :
         /\ up = Servers
         /\ leader \in [Servers -> {l, None}] /\ leader[l] = l
         /\ attempt = [i \in Attempts |-> IF i = 0 THEN first ELSE Idle]
         /\ inbox = <<>> /\ connection = None
  BY DEF Init
<1>2. first.phase = "probe" /\ Idle.phase = "idle"
  BY Configured, FreshType, IdleType
<1> HIDE DEF first
<1>3. Followed
  BY <1>1 DEF Followed, Lasting
<1>4. \A i \in Mandates : i \in Attempts /\ i # 0
  BY ReconnectionAssumption DEF Mandates, Attempts
<1>5. Sought /\ Checked
  BY <1>1, <1>2, <1>4 DEF Sought, Checked
<1>6. AllHeard /\ Kept
  BY <1>1 DEF AllHeard, Kept
<1> QED BY <1>3, <1>5, <1>6 DEF TrueInv

(* The datagrams that are left are heard as before, if what lasts does so. *)
LEMMA StillHeard ==
    ASSUME AllHeard, Lasting \subseteq Lasting',
           \A k \in DOMAIN inbox' : \E j \in DOMAIN inbox : inbox'[k] = inbox[j]
    PROVE  AllHeard'
BY DEF AllHeard, Heard

(* What is left when a datagram was read was there before.                 *)
LEMMA TailLeft ==
    ASSUME inbox \in Seq(Datagram), inbox # <<>>,
           inbox' = Tail(inbox) \/ inbox' = <<>>
    PROVE  \A k \in DOMAIN inbox' : \E j \in DOMAIN inbox : inbox'[k] = inbox[j]
BY Inbox

(* A datagram that arrives is heard as well.                               *)
LEMMA OneHeard ==
    ASSUME inbox \in Seq(Datagram), AllHeard, Lasting \subseteq Lasting',
           NEW m \in Datagram, Heard(m)', inbox' = Delivered(m)
    PROVE  AllHeard'
<1>1. \A k \in DOMAIN inbox' : (k \in DOMAIN inbox /\ inbox'[k] = inbox[k]) \/ inbox'[k] = m
  BY Arrival
<1> QED BY <1>1 DEF AllHeard, Heard

(* Every step keeps to servers that last.                                  *)
LEMMA TrueStep == TypeInv /\ LeadInv /\ TrueInv /\ [Next]_vars => TrueInv'
<1> SUFFICES ASSUME TypeInv, LeadInv, TrueInv, [Next]_vars, restarts' = 0
             PROVE  /\ Followed' /\ AllHeard' /\ Sought'
                    /\ "misread" \notin faults' => Checked' /\ Kept'
  BY DEF TrueInv
<1>0. /\ up \subseteq Servers /\ None \notin Servers
      /\ leader \in [Servers -> Servers \cup {None}]
      /\ inbox \in Seq(Datagram) /\ AttemptsOK /\ TypeOK
      /\ connection \in Servers \cup {None}
  BY ReconnectionAssumption, TypeParts DEF TypeInv, ServersOK
<1>a. /\ restarts = 0 /\ \A s \in Servers : ~Restart(s)
      /\ up' \subseteq up /\ Lasting \subseteq Lasting'
  BY LastingStays
<1>b. /\ Followed /\ AllHeard /\ Sought
      /\ "misread" \notin faults => Checked /\ Kept
  BY <1>a DEF TrueInv
<1>c. /\ Mandates \subseteq Attempts /\ 0 \in Attempts /\ 0 \notin Mandates
  BY ReconnectionAssumption DEF Attempts, Mandates
<1>1. ASSUME NEW i \in Attempts, try_connection(i)
      PROVE  /\ Followed' /\ AllHeard' /\ Sought'
             /\ "misread" \notin faults' => Checked' /\ Kept'
  <2>1. /\ inbox # <<>> /\ First \in Datagram
        /\ attempt[i].phase \in {"probe", "check"} /\ Going(attempt[i])
        /\ \A j \in Attempts \ {i} : attempt'[j] = attempt[j]
        /\ attempt'[i].dest_ports = attempt[i].dest_ports
        /\ ReadsOn(i) \/ Connects(i) \/ Refused(i)
        /\ UNCHANGED <<up, leader>>
    BY <1>0, <1>1, TryConnection DEF serverVars
  <2>2. Lasting' = Lasting
    BY <2>1 DEF Lasting
  <2>3. Heard(First)
    BY <1>0, <1>b, <2>1, Inbox DEF AllHeard, First
  <2>4. Followed'
    BY <1>b, <2>1, <2>2 DEF Followed
  <2>5. AllHeard'
    BY <1>0, <1>a, <1>b, <2>1, TailLeft, StillHeard DEF ReadsOn, Connects, Refused
  <2>6. Sought'
    BY <1>b, <1>c, <2>1, <2>2 DEF Sought
  <2>7. ASSUME "misread" \notin faults' PROVE Checked' /\ Kept'
    <3>1. faults' = faults \cup (IF Mandated THEN {"mandate misread"} ELSE {})
                           \cup (IF Misread(i) THEN {"misread"} ELSE {})
      BY <1>0, <1>1, TryConnection
    <3>2. "misread" \notin faults /\ ~Misread(i)
      BY <2>7, <3>1
    <3>3. Checked /\ Kept
      BY <1>b, <3>2
    <3>4. attempt'[i].phase = "check" => attempt'[i].via \in Lasting
      <4> SUFFICES ASSUME attempt'[i].phase = "check"
                   PROVE  attempt'[i].via \in Lasting
        OBVIOUS
      <4>1. Checks(attempt[i], First, attempt'[i])
        BY <2>1, NextTryType DEF ReadsOn, Connects, Refused, TriesOn
      <4>2. CASE First.type = "ConnectionAvailable" /\ attempt'[i].via = Target(attempt[i])
        <5>1. First.from = Target(attempt[i]) /\ ~Refers(First)
          BY <3>2, <4>2 DEF Misread, Mandated, Refers
        <5> QED BY <2>3, <4>2, <5>1 DEF Heard
      <4>3. CASE Refers(First) /\ First.leader # None /\ attempt'[i].via = First.leader
        BY <2>3, <4>3 DEF Heard
      <4> QED BY <4>1, <4>2, <4>3 DEF Checks
    <3>5. Checked'
      BY <2>1, <2>2, <3>3, <3>4 DEF Checked
    <3>6. Kept'
      <4>1. CASE connection' = connection
        BY <2>1, <2>2, <3>3, <4>1 DEF Kept
      <4>2. CASE Connects(i)
        <5>1. attempt[i].phase = "check" /\ attempt[i].via \in up /\ connection' = attempt[i].via
          BY <4>2 DEF Connects, Ends
        <5> QED BY <2>1, <2>2, <3>3, <5>1 DEF Checked, Kept
      <4> QED BY <2>1, <4>1, <4>2 DEF ReadsOn, Refused
    <3> QED BY <3>5, <3>6
  <2> QED BY <2>4, <2>5, <2>6, <2>7
<1>2. ASSUME NEW i \in Attempts, Timeout(i)
      PROVE  /\ Followed' /\ AllHeard' /\ Sought'
             /\ "misread" \notin faults' => Checked' /\ Kept'
  <2>1. /\ \A j \in Attempts \ {i} : attempt'[j] = attempt[j]
        /\ attempt'[i].dest_ports = attempt[i].dest_ports
        /\ attempt[i].phase # "idle" /\ attempt'[i].phase # "check"
    <3>1. /\ \A j \in Attempts \ {i} : attempt'[j] = attempt[j]
          /\ attempt[i].phase \in {"probe", "check"} /\ Going(attempt[i])
          /\ attempt'[i] = NextTry(attempt[i])
      BY <1>0, <1>2, TimedOut
    <3>2. PICK b : b = NextTry(attempt[i])
      OBVIOUS
    <3>3. b.dest_ports = attempt[i].dest_ports /\ b.phase \in {"probe", "gave up"}
      BY <3>1, <3>2, NextTryType
    <3> QED BY <3>1, <3>2, <3>3
  <2>2. UNCHANGED <<up, leader, inbox, connection, faults>>
    BY <1>2 DEF Timeout, serverVars
  <2>3. Lasting' = Lasting
    BY <2>2 DEF Lasting
  <2>4. Followed'
    BY <1>b, <2>2, <2>3 DEF Followed
  <2>5. AllHeard'
    BY <1>b, <2>2, <2>3 DEF AllHeard, Heard
  <2>6. Sought'
    BY <1>b, <1>c, <2>1, <2>3 DEF Sought
  <2>7. Checked => Checked'
    BY <2>1, <2>3 DEF Checked
  <2>8. Kept => Kept'
    BY <2>2, <2>3 DEF Kept
  <2> QED BY <1>b, <2>2, <2>4, <2>5, <2>6, <2>7, <2>8
<1>3. ASSUME NEW i \in Attempts, SetupReconnection(i) \/ (Start /\ i = 0)
      PROVE  /\ Followed' /\ AllHeard' /\ Sought'
             /\ "misread" \notin faults' => Checked' /\ Kept'
  <2>1. /\ attempt[i].phase # "idle"
        /\ attempt' = [attempt EXCEPT ![i].phase = "done"]
        /\ UNCHANGED <<up, leader, inbox, connection, faults>>
    BY <1>3 DEF SetupReconnection, Start, bounds, TypeInv
  <2>2. /\ \A j \in Attempts \ {i} : attempt'[j] = attempt[j]
        /\ attempt'[i].dest_ports = attempt[i].dest_ports
        /\ attempt'[i].phase = "done"
    BY <1>0, <2>1, OnePhase DEF Phases
  <2>3. Lasting' = Lasting
    BY <2>1 DEF Lasting
  <2>4. Followed'
    BY <1>b, <2>1, <2>3 DEF Followed
  <2>5. AllHeard'
    BY <1>b, <2>1, <2>3 DEF AllHeard, Heard
  <2>6. Sought'
    BY <1>b, <1>c, <2>1, <2>2, <2>3 DEF Sought
  <2>7. Checked => Checked'
    BY <2>2, <2>3 DEF Checked
  <2>8. Kept => Kept'
    BY <2>1, <2>3 DEF Kept
  <2> QED BY <1>b, <2>1, <2>4, <2>5, <2>6, <2>7, <2>8
<1>4. ASSUME ReconnectToNewPedidosRust
      PROVE  /\ Followed' /\ AllHeard' /\ Sought'
             /\ "misread" \notin faults' => Checked' /\ Kept'
  <2> DEFINE b == Fresh(<<First.from>>)
  <2>1. /\ inbox # <<>> /\ First \in Datagram /\ Mandated
        /\ inbox' = Tail(inbox)
        /\ b.phase = "probe" /\ b.dest_ports = <<First.from>>
        /\ \A j \in Attempts : attempt'[j] = IF j = NextIdle THEN b ELSE attempt[j]
    BY <1>0, <1>4, Reconnecting
  <2>2. UNCHANGED <<up, leader, connection, faults>>
    BY <1>4 DEF ReconnectToNewPedidosRust, serverVars, bounds
  <2> HIDE DEF b
  <2>3. Lasting' = Lasting
    BY <2>2 DEF Lasting
  <2>4. Followed'
    BY <1>b, <2>2, <2>3 DEF Followed
  <2>5. AllHeard'
    BY <1>0, <1>a, <1>b, <2>1, TailLeft, StillHeard
  <2>6. First.from \in Lasting
    <3>1. Heard(First)
      BY <1>0, <1>b, <2>1, Inbox DEF AllHeard, First
    <3> QED BY <2>1, <3>1 DEF Heard, Refers, Mandated
  <2>7. b.dest_ports[1] = First.from
    BY <2>1
  <2>8. Sought'
    BY <1>b, <1>c, <2>1, <2>3, <2>6, <2>7 DEF Sought
  <2>9. Checked => Checked'
    BY <2>1, <2>3 DEF Checked
  <2>10. Kept => Kept'
    BY <2>2, <2>3 DEF Kept
  <2> QED BY <1>b, <2>2, <2>4, <2>5, <2>8, <2>9, <2>10
<1>5. ASSUME UNCHANGED <<attempt, faults, connection, up, leader>>,
             AllHeard'
      PROVE  /\ Followed' /\ AllHeard' /\ Sought'
             /\ "misread" \notin faults' => Checked' /\ Kept'
  <2>1. Lasting' = Lasting
    BY <1>5 DEF Lasting
  <2> QED BY <1>b, <1>5, <2>1 DEF Followed, Sought, Checked, Kept
<1>6. CASE Unrecognized
  <2>1. /\ inbox # <<>> /\ inbox' = Tail(inbox)
        /\ UNCHANGED <<attempt, faults, connection, up, leader>>
    BY <1>6 DEF Unrecognized, serverVars
  <2>2. AllHeard'
    BY <1>0, <1>a, <1>b, <2>1, TailLeft, StillHeard
  <2> QED BY <1>5, <2>1, <2>2
<1>7. ASSUME NEW s \in Servers, send_connection_answer(s)
      PROVE  /\ Followed' /\ AllHeard' /\ Sought'
             /\ "misread" \notin faults' => Checked' /\ Kept'
  <2>1. /\ inbox' = Delivered(AnswerOf(s))
        /\ UNCHANGED <<attempt, faults, connection, up, leader>>
    BY <1>7 DEF send_connection_answer, serverVars, bounds
  <2>2. PICK m : m = AnswerOf(s)
    OBVIOUS
  <2>3. /\ m \in Datagram /\ m.from = s
        /\ Refers(m) <=> leader[s] # s
        /\ Refers(m) => m.leader = leader[s]
        /\ inbox' = Delivered(m)
    BY <1>0, <2>1, <2>2, AnswerType
  <2>4. Heard(m)
    BY <1>b, <2>3 DEF Heard, Followed, Lasting
  <2>5. Heard(m)'
    BY <1>a, <2>4 DEF Heard
  <2>6. AllHeard'
    BY <1>0, <1>a, <1>b, <2>3, <2>5, OneHeard
  <2> QED BY <1>5, <2>1, <2>6
<1>8. ASSUME NEW s \in Servers, TakeOver(s) \/ ElectedAgain(s)
      PROVE  /\ Followed' /\ AllHeard' /\ Sought'
             /\ "misread" \notin faults' => Checked' /\ Kept'
  <2>1. /\ inbox' = inbox \/ inbox' = Delivered(Mandate(s))
        /\ s \in up /\ up' = up
        /\ \/ leader' = [leader EXCEPT ![s] = s]
           \/ leader' = leader /\ leader[s] = s
        /\ "misread" \in faults => "misread" \in faults'
        /\ UNCHANGED <<attempt, connection>>
    BY <1>8 DEF TakeOver, ElectedAgain, NotifyAllClientsIAmLeader, Mandate, Leads
  <2>2. /\ s \in Lasting' /\ \A t \in Servers \ {s} : leader'[t] = leader[t]
        /\ leader'[s] = s
    BY <1>0, <2>1 DEF Lasting
  <2>3. PICK m : m = Mandate(s)
    OBVIOUS
  <2>4. m \in Datagram /\ ~Refers(m) /\ m.from = s
    BY <2>3 DEF Mandate, Datagram, Refers
  <2>5. Heard(m)'
    BY <2>2, <2>4 DEF Heard
  <2>6. AllHeard'
    <3>1. CASE inbox' = inbox
      BY <1>a, <1>b, <3>1 DEF AllHeard, Heard
    <3>2. CASE inbox' = Delivered(m)
      BY <1>0, <1>a, <1>b, <2>4, <2>5, <3>2, OneHeard
    <3> QED BY <2>1, <2>3, <3>1, <3>2
  <2>7. Followed'
    BY <1>a, <1>b, <2>2 DEF Followed
  <2>8. Sought'
    BY <1>a, <1>b, <2>1 DEF Sought
  <2>9. Checked => Checked'
    BY <1>a, <2>1 DEF Checked
  <2>10. Kept => Kept'
    BY <1>a, <2>1 DEF Kept
  <2> QED BY <1>b, <2>1, <2>6, <2>7, <2>8, <2>9, <2>10
<1>9. ASSUME NEW s \in Servers, Crash(s)
      PROVE  /\ Followed' /\ AllHeard' /\ Sought'
             /\ "misread" \notin faults' => Checked' /\ Kept'
  <2>1. /\ up' = up \ {s} /\ leader' = [leader EXCEPT ![s] = None]
        /\ connection' = IF connection = s THEN None ELSE connection
        /\ "misread" \in faults => "misread" \in faults'
        /\ UNCHANGED <<attempt, inbox>>
    BY <1>9 DEF Crash
  <2>2. \A t \in Servers : leader'[t] \in {leader[t], None}
    BY <1>0, <2>1
  <2>3. Followed'
    BY <1>a, <1>b, <2>2 DEF Followed
  <2>4. AllHeard'
    BY <1>a, <1>b, <2>1 DEF AllHeard, Heard
  <2>5. Sought'
    BY <1>a, <1>b, <2>1 DEF Sought
  <2>6. Checked => Checked'
    BY <1>a, <2>1 DEF Checked
  <2>7. Kept => Kept'
    BY <1>a, <2>1 DEF Kept
  <2> QED BY <1>b, <2>1, <2>3, <2>4, <2>5, <2>6, <2>7
<1>10. ASSUME NEW s \in Servers, NEW l \in Servers, GotLeader(s, l)
      PROVE  /\ Followed' /\ AllHeard' /\ Sought'
             /\ "misread" \notin faults' => Checked' /\ Kept'
  <2>1. /\ leader' = [leader EXCEPT ![s] = l] /\ leader[l] = l
        /\ UNCHANGED <<up, attempt, inbox, connection, faults>>
    BY <1>10 DEF GotLeader, Leads, bounds
  <2>2. l \in Lasting
    BY <2>1 DEF Lasting
  <2>3. \A t \in Servers : leader'[t] \in {leader[t], l}
    BY <1>0, <2>1
  <2>4. Followed'
    BY <1>a, <1>b, <2>2, <2>3 DEF Followed
  <2>5. AllHeard'
    BY <1>a, <1>b, <2>1 DEF AllHeard, Heard
  <2>6. Sought'
    BY <1>a, <1>b, <2>1 DEF Sought
  <2>7. Checked => Checked'
    BY <1>a, <2>1 DEF Checked
  <2>8. Kept => Kept'
    BY <1>a, <2>1 DEF Kept
  <2> QED BY <1>b, <2>1, <2>4, <2>5, <2>6, <2>7, <2>8
<1>11. CASE UNCHANGED vars
  <2>1. UNCHANGED <<attempt, faults, connection, up, leader, inbox>>
    BY <1>11 DEF vars, serverVars, bounds
  <2>2. AllHeard'
    BY <1>a, <1>b, <2>1 DEF AllHeard, Heard
  <2> QED BY <1>5, <2>1, <2>2
<1> QED BY <1>a, <1>c, <1>1, <1>2, <1>3, <1>4, <1>6, <1>7, <1>8, <1>9, <1>10,
           <1>11 DEF Next, Server

(* Whoever is probed, in whatever order, and however the servers crash and *)
(* take over: a client that took no other server's answer for the one it   *)
(* was waiting for is connected to the leader.                             *)
THEOREM OnlyToTheLeader == Spec => []ConnectsToTheLeader
<1> DEFINE Inv == TypeInv /\ LeadInv /\ TrueInv
<1>1. Init => Inv
  BY InitType, LeadInit, TrueInit
<1>2. Inv /\ [Next]_vars => Inv'
  BY TypeStep, LeadStep, TrueStep
<1>3. Inv => ConnectsToTheLeader
  BY DEF TrueInv, Kept, Lasting, ConnectsToTheLeader, Leads
<1> QED BY <1>1, <1>2, <1>3, PTL DEF Spec

----------------------------------------------------------------------------
(* The attempts that a mandate has begun, and the mandates on their way.   *)
Begun == {i \in Mandates : attempt[i].phase # "idle"}
MandateSet == {m \in Datagram : m.type = "ReconnectionMandate"}
Told == Count(inbox, MandateSet)

StartPhase == Awaits(0) <=> client = "starting"
NoneBefore == Begun # {} => client = "running"
OnePort == \A i \in Begun : Len(attempt[i].dest_ports) = 1
LastPass == \A i \in Attempts : attempt[i].phase = "gave up" => attempt[i].pass = MaxPasses

(* The client starts with the attempt 0, and makes the others when it runs,*)
(* each for a mandate that it was sent and to its sender alone, so that    *)
(* there is an idle attempt for the next one; they give up in the last pass*)
PhaseInv == /\ StartPhase /\ NoneBefore /\ OnePort /\ LastPass
            /\ Cardinality(Begun) + Told <= mandates

(* The attempts are 0 and one for each mandate.                            *)
LEMMA AttemptsFacts ==
    /\ Mandates \subseteq Attempts /\ 0 \in Attempts /\ 0 \notin Mandates
    /\ \A i \in Attempts : i # 0 => i \in Mandates
    /\ Mandates \subseteq Nat
    /\ IsFiniteSet(Mandates) /\ Cardinality(Mandates) = MaxMandates
<1>1. MaxMandates \in Nat
  BY ReconnectionAssumption
<1>2. IsFiniteSet(1 .. MaxMandates) /\ Cardinality(1 .. MaxMandates) = MaxMandates
  BY <1>1, FS_Interval
<1> QED BY <1>1, <1>2 DEF Attempts, Mandates

(* There are at most as many attempts begun as mandates.                   *)
LEMMA BegunType ==
    /\ Begun \subseteq Mandates /\ IsFiniteSet(Begun)
    /\ Cardinality(Begun) \in Nat /\ Cardinality(Begun) <= MaxMandates
<1>1. Begun \subseteq Mandates
  BY DEF Begun
<1> QED BY <1>1, AttemptsFacts, Fewer

(* Only the attempt 0 is under way when the client starts.                 *)
LEMMA PhaseInit == Init => PhaseInv
<1> SUFFICES ASSUME Init PROVE PhaseInv
  OBVIOUS
<1> DEFINE first == Fresh(Configuration)
<1>1. /\ attempt = [i \in Attempts |-> IF i = 0 THEN first ELSE Idle]
      /\ inbox = <<>> /\ client = "starting" /\ mandates = 0
  BY DEF Init
<1>2. first.phase = "probe" /\ Idle.phase = "idle"
  BY Configured, FreshType, IdleType
<1> HIDE DEF first
<1>3. Begun = {}
  BY <1>1, <1>2, AttemptsFacts DEF Begun
<1>4. StartPhase /\ NoneBefore /\ OnePort /\ LastPass
  BY <1>1, <1>2, <1>3, AttemptsFacts
     DEF StartPhase, NoneBefore, OnePort, LastPass, Awaits
<1>5. Cardinality(Begun) = 0 /\ Told = 0
  BY <1>1, <1>3, FS_EmptySet, CountNone DEF Told
<1> QED BY <1>1, <1>4, <1>5 DEF PhaseInv

(* An idle attempt is there for a mandate that is read.                    *)
LEMMA NextIdleIs ==
    ASSUME TypeInv, PhaseInv, inbox # <<>>, Mandated
    PROVE  NextIdle \in Mandates /\ attempt[NextIdle].phase = "idle"
<1> DEFINE S == {j \in Mandates : attempt[j].phase = "idle"}
<1>1. /\ inbox \in Seq(Datagram) /\ MaxMandates \in Nat
      /\ mandates \in 0 .. MaxMandates
  BY ReconnectionAssumption DEF TypeInv, TypeOK
<1>2. 1 \in DOMAIN inbox /\ inbox[1] \in MandateSet
  BY <1>1, Inbox DEF MandateSet, Mandated, First
<1>3. Told \in Nat /\ Told >= 1
  BY <1>1, <1>2, CountType DEF Told
<1>4. Cardinality(Begun) \in Nat /\ Cardinality(Begun) # MaxMandates
  BY <1>1, <1>3, BegunType DEF PhaseInv
<1>5. Begun # Mandates
  BY <1>4, AttemptsFacts
<1>6. S # {} /\ S \subseteq Nat
  BY <1>5, AttemptsFacts DEF Begun
<1>7. Min(S) \in S
  BY <1>6, MinOfNats
<1> QED BY <1>7 DEF NextIdle

(* The mandates that are left when a datagram was read.                    *)
LEMMA ToldOne ==
    ASSUME inbox \in Seq(Datagram), inbox # <<>>, inbox' = Tail(inbox)
    PROVE  /\ Told \in Nat /\ Told' \in Nat
           /\ Told = Told' + (IF Mandated THEN 1 ELSE 0)
<1>1. First \in Datagram /\ Tail(inbox) \in Seq(Datagram)
  BY Inbox DEF First
<1>2. Told = Count(Tail(inbox), MandateSet) + (IF First \in MandateSet THEN 1 ELSE 0)
  BY CountTail DEF Told, First
<1>3. Told' = Count(Tail(inbox), MandateSet)
  BY DEF Told
<1>4. First \in MandateSet <=> Mandated
  BY <1>1 DEF MandateSet, Mandated
<1> QED BY <1>1, <1>2, <1>3, <1>4, CountType DEF Told

(* A datagram that comes is one more mandate at most.                      *)
LEMMA ToldMore ==
    ASSUME inbox \in Seq(Datagram), NEW m \in Datagram, inbox' = Delivered(m)
    PROVE  /\ Told \in Nat /\ Told' \in Nat
           /\ Told' <= Told + 1
           /\ m.type # "ReconnectionMandate" => Told' = Told
<1>1. Told \in Nat
  BY CountType DEF Told
<1>2. CASE inbox' = inbox
  <2>1. Told' = Told
    BY <1>2 DEF Told
  <2> QED BY <1>1, <2>1
<1>3. CASE inbox' = Append(inbox, m)
  <2>1. Told' = Told + (IF m \in MandateSet THEN 1 ELSE 0)
    BY <1>3, CountAppend DEF Told
  <2> QED BY <1>1, <2>1 DEF MandateSet
<1> QED BY <1>2, <1>3 DEF Delivered

(* The attempts are as they were, up to one that waited for an answer.     *)
LEMMA SamePhases ==
    ASSUME PhaseInv, NEW i \in Attempts,
           \A j \in Attempts \ {i} : attempt'[j] = attempt[j],
           attempt[i].phase # "idle", attempt'[i].phase # "idle",
           attempt'[i].dest_ports = attempt[i].dest_ports,
           attempt'[i].phase = "gave up" => attempt'[i].pass = MaxPasses
    PROVE  Begun' = Begun /\ OnePort' /\ LastPass'
<1>1. Begun' = Begun
  BY AttemptsFacts DEF Begun
<1>2. OnePort'
  BY <1>1, AttemptsFacts DEF PhaseInv, OnePort, Begun
<1>3. LastPass'
  BY DEF PhaseInv, LastPass
<1> QED BY <1>1, <1>2, <1>3

(* Every step keeps the order of the phases, and an attempt for every      *)
(* mandate on its way.                                                     *)
LEMMA PhaseStep == TypeInv /\ PhaseInv /\ [Next]_vars => PhaseInv'
<1> SUFFICES ASSUME TypeInv, PhaseInv, [Next]_vars PROVE PhaseInv'
  OBVIOUS
<1>0. /\ TypeOK /\ AttemptsOK /\ inbox \in Seq(Datagram)
      /\ mandates \in Nat /\ leader \in [Servers -> Servers \cup {None}]
      /\ attempt[0].phase # "idle"
  BY ReconnectionAssumption, TypeParts DEF TypeInv, ServersOK
<1>b. /\ StartPhase /\ NoneBefore /\ OnePort /\ LastPass
      /\ Cardinality(Begun) + Told <= mandates
      /\ Cardinality(Begun) \in Nat /\ Told \in Nat
  BY <1>0, BegunType, CountType DEF PhaseInv, Told
<1>n. mandates \in Nat
  BY <1>0
<1>1. ASSUME NEW i \in Attempts, try_connection(i) PROVE PhaseInv'
  <2>1. /\ inbox # <<>> /\ First \in Datagram
        /\ attempt[i].phase \in {"probe", "check"} /\ Going(attempt[i])
        /\ \A j \in Attempts \ {i} : attempt'[j] = attempt[j]
        /\ attempt'[i].dest_ports = attempt[i].dest_ports
        /\ ReadsOn(i) \/ Connects(i) \/ Refused(i)
        /\ mandates' = mandates
    BY <1>0, <1>1, TryConnection DEF serverVars
  <2>2. /\ attempt'[i].phase \in {"probe", "check", "gave up", "setup", "refused"}
        /\ attempt'[i].phase = "gave up" => attempt'[i].pass = MaxPasses
    <3>1. PICK b : b = NextTry(attempt[i])
      OBVIOUS
    <3>2. /\ b.phase \in {"probe", "gave up"}
          /\ b.phase = "gave up" => b.pass = MaxPasses
      BY <2>1, <3>1, NextTryType
    <3>3. CASE ReadsOn(i)
      BY <3>1, <3>2, <3>3 DEF ReadsOn, TriesOn, Checks
    <3>4. CASE Connects(i) \/ Refused(i)
      BY <3>4 DEF Connects, Refused
    <3> QED BY <2>1, <3>3, <3>4
  <2>3. Begun' = Begun /\ OnePort' /\ LastPass'
    BY <2>1, <2>2, SamePhases
  <2>4. client' = IF i # 0 THEN client
                  ELSE CASE attempt'[i].phase \in {"gave up", "refused"} -> "failed"
                         [] attempt'[i].phase = "setup" -> "connected"
                         [] OTHER -> client
    <3>1. CASE ReadsOn(i)
      BY <2>1, <2>2, <3>1, NextTryType DEF ReadsOn, TriesOn, Checks, GoOn
    <3>2. CASE Connects(i) \/ Refused(i)
      BY <3>2 DEF Connects, Refused
    <3> QED BY <2>1, <3>1, <3>2
  <2>5. StartPhase'
    BY <1>b, <2>1, <2>2, <2>4, AttemptsFacts DEF StartPhase, Awaits
  <2>6. NoneBefore'
    BY <1>b, <2>1, <2>3, <2>4 DEF StartPhase, NoneBefore, Awaits
  <2>7. Told' \in Nat /\ Told' <= Told
    <3>1. CASE inbox' = Tail(inbox)
      BY <1>0, <2>1, <3>1, ToldOne
    <3>2. CASE inbox' = <<>>
      <4>1. Told' = 0
        BY <3>2, CountNone DEF Told
      <4> QED BY <1>b, <4>1
    <3> QED BY <2>1, <3>1, <3>2 DEF ReadsOn, Connects, Refused
  <2>8. Cardinality(Begun') + Told' <= mandates'
    BY <1>0, <1>b, <2>1, <2>3, <2>7
  <2> QED BY <2>3, <2>5, <2>6, <2>8 DEF PhaseInv
<1>2. ASSUME NEW i \in Attempts, Timeout(i) PROVE PhaseInv'
  <2>a. /\ \A j \in Attempts \ {i} : attempt'[j] = attempt[j]
        /\ attempt[i].phase \in {"probe", "check"} /\ Going(attempt[i])
        /\ attempt'[i] = NextTry(attempt[i]) /\ GoOn(i, attempt'[i])
    BY <1>0, <1>2, TimedOut
  <2>1. /\ attempt'[i].dest_ports = attempt[i].dest_ports
        /\ attempt'[i].phase \in {"probe", "gave up"}
        /\ attempt'[i].phase = "gave up" => attempt'[i].pass = MaxPasses
    <3>1. PICK a : a = attempt[i]
      OBVIOUS
    <3>2. Going(a) /\ attempt'[i] = NextTry(a)
      BY <2>a, <3>1
    <3>3. PICK b : b = NextTry(a)
      OBVIOUS
    <3>4. /\ b.dest_ports = a.dest_ports /\ b.phase \in {"probe", "gave up"}
          /\ b.phase = "gave up" => b.pass = a.pass /\ a.pass = MaxPasses
      BY <3>2, <3>3, NextTryType
    <3> QED BY <3>1, <3>2, <3>3, <3>4
  <2>2. UNCHANGED <<mandates, inbox>>
    BY <1>2 DEF Timeout, serverVars
  <2>3. Begun' = Begun /\ OnePort' /\ LastPass'
    BY <2>a, <2>1, SamePhases
  <2>4. client' = IF i = 0 /\ attempt'[i].phase = "gave up" THEN "failed" ELSE client
    BY <2>a DEF GoOn
  <2>5. StartPhase'
    BY <1>b, <2>a, <2>1, <2>4, AttemptsFacts DEF StartPhase, Awaits
  <2>6. NoneBefore'
    BY <1>b, <2>a, <2>1, <2>3, <2>4 DEF StartPhase, NoneBefore, Awaits
  <2>7. Told' = Told
    BY <2>2 DEF Told
  <2> QED BY <1>b, <2>2, <2>3, <2>5, <2>6, <2>7 DEF PhaseInv
<1>3. ASSUME NEW i \in Attempts,
             \/ SetupReconnection(i)
             \/ Start /\ i = 0
      PROVE PhaseInv'
  <2>1. /\ attempt[i].phase # "idle"
        /\ attempt' = [attempt EXCEPT ![i].phase = "done"]
        /\ \/ client' = client /\ attempt[i].phase = "setup"
           \/ client = "connected" /\ client' = "running" /\ i = 0
        /\ UNCHANGED <<mandates, inbox>>
    BY <1>0, <1>3 DEF SetupReconnection, Start
  <2>2. /\ \A j \in Attempts \ {i} : attempt'[j] = attempt[j]
        /\ attempt'[i].dest_ports = attempt[i].dest_ports
        /\ attempt'[i].phase = "done"
    BY <1>0, <2>1, OnePhase DEF Phases
  <2>3. Begun' = Begun /\ OnePort' /\ LastPass'
    BY <2>1, <2>2, SamePhases
  <2>4. StartPhase'
    BY <1>b, <2>1, <2>2, AttemptsFacts DEF StartPhase, Awaits
  <2>5. NoneBefore'
    BY <1>b, <2>1, <2>3 DEF NoneBefore
  <2>6. Told' = Told
    BY <2>1 DEF Told
  <2> QED BY <1>b, <2>1, <2>3, <2>4, <2>5, <2>6 DEF PhaseInv
<1>4. ASSUME ReconnectToNewPedidosRust PROVE PhaseInv'
  <2> DEFINE b == Fresh(<<First.from>>)
  <2>1. /\ inbox # <<>> /\ First \in Datagram /\ Mandated
        /\ inbox' = Tail(inbox) /\ client = "running" /\ client' = client
        /\ b.phase = "probe" /\ b.dest_ports = <<First.from>>
        /\ \A j \in Attempts : attempt'[j] = IF j = NextIdle THEN b ELSE attempt[j]
    BY <1>0, <1>4, Reconnecting
  <2>2. mandates' = mandates
    BY <1>4 DEF ReconnectToNewPedidosRust, serverVars
  <2>3. NextIdle \in Mandates /\ attempt[NextIdle].phase = "idle"
    BY <2>1, NextIdleIs
  <2>4. Len(b.dest_ports) = 1
    BY <2>1
  <2> HIDE DEF b
  <2>5. PICK k : k = NextIdle
    OBVIOUS
  <2>6. /\ k \in Mandates /\ attempt[k].phase = "idle" /\ k # 0
        /\ \A j \in Attempts : attempt'[j] = IF j = k THEN b ELSE attempt[j]
    BY <2>1, <2>3, <2>5, AttemptsFacts
  <2>7. Begun' = Begun \cup {k} /\ k \notin Begun
    BY <2>1, <2>6, AttemptsFacts DEF Begun
  <2>8. Cardinality(Begun') = Cardinality(Begun) + 1
    BY <2>7, BegunType, OneMore
  <2>9. Told' \in Nat /\ Told = Told' + 1
    BY <1>0, <2>1, ToldOne
  <2>10. Cardinality(Begun') + Told' <= mandates'
    BY <1>0, <1>b, <2>2, <2>8, <2>9
  <2>11. StartPhase' /\ NoneBefore'
    BY <1>b, <2>1, <2>6, AttemptsFacts DEF StartPhase, NoneBefore, Awaits
  <2>12. OnePort'
    BY <1>b, <2>4, <2>6, <2>7, AttemptsFacts DEF OnePort, Begun
  <2>13. LastPass'
    BY <1>b, <2>1, <2>6 DEF LastPass
  <2> QED BY <2>10, <2>11, <2>12, <2>13 DEF PhaseInv
<1>5. ASSUME UNCHANGED <<attempt, client>>, Told' \in Nat,
             \/ mandates' = mandates /\ Told' <= Told
             \/ mandates' = mandates + 1 /\ Told' <= Told + 1
      PROVE PhaseInv'
  <2>1. Begun' = Begun
    BY <1>5 DEF Begun
  <2>2. StartPhase' /\ NoneBefore' /\ OnePort' /\ LastPass'
    BY <1>b, <1>5, <2>1 DEF StartPhase, NoneBefore, OnePort, LastPass, Awaits
  <2>3. PICK c \in Nat : c = Cardinality(Begun) /\ c = Cardinality(Begun')
    BY <1>b, <2>1
  <2>4. c + Told <= mandates
    BY <1>b, <2>3
  <2>5. PICK t, m \in Nat : t = Told' /\ m = mandates'
    BY <1>n, <1>5
  <2>6. \/ m = mandates /\ t <= Told
        \/ m = mandates + 1 /\ t <= Told + 1
    BY <1>5, <2>5
  <2>7. c + t <= m
    BY <1>n, <1>b, <2>4, <2>6
  <2> QED BY <2>2, <2>3, <2>5, <2>7 DEF PhaseInv
<1>6. CASE Unrecognized
  <2>1. /\ inbox # <<>> /\ inbox' = Tail(inbox)
        /\ UNCHANGED <<attempt, client, mandates>>
    BY <1>6 DEF Unrecognized, serverVars
  <2>2. Told' \in Nat /\ Told' <= Told
    BY <1>0, <2>1, ToldOne
  <2> QED BY <1>n, <1>b, <1>5, <2>1, <2>2
<1>7. ASSUME NEW s \in Servers, send_connection_answer(s) PROVE PhaseInv'
  <2>1. /\ inbox' = Delivered(AnswerOf(s))
        /\ UNCHANGED <<attempt, client, mandates>>
    BY <1>7 DEF send_connection_answer, serverVars, bounds
  <2>2. PICK m : m = AnswerOf(s)
    OBVIOUS
  <2>3. /\ m \in Datagram /\ m.type # "ReconnectionMandate"
        /\ inbox' = Delivered(m)
    BY <1>0, <2>1, <2>2, AnswerType
  <2>4. Told' = Told
    BY <1>0, <2>3, ToldMore
  <2> QED BY <1>n, <1>b, <1>5, <2>1, <2>4
<1>8. ASSUME NEW s \in Servers, TakeOver(s) \/ ElectedAgain(s) PROVE PhaseInv'
  <2>1. /\ \/ inbox' = inbox /\ mandates' = mandates
           \/ inbox' = Delivered(Mandate(s)) /\ mandates' = mandates + 1
        /\ UNCHANGED <<attempt, client>>
    BY <1>8 DEF TakeOver, ElectedAgain, NotifyAllClientsIAmLeader, Mandate
  <2>2. CASE inbox' = inbox /\ mandates' = mandates
    <3>1. Told' = Told
      BY <2>2 DEF Told
    <3> QED BY <1>n, <1>b, <1>5, <2>1, <2>2, <3>1
  <2>3. CASE inbox' = Delivered(Mandate(s)) /\ mandates' = mandates + 1
    <3>1. PICK m : m = Mandate(s)
      OBVIOUS
    <3>2. m \in Datagram /\ inbox' = Delivered(m)
      BY <2>3, <3>1 DEF Mandate, Datagram
    <3>3. Told' \in Nat /\ Told' <= Told + 1
      BY <1>0, <3>2, ToldMore
    <3> QED BY <1>n, <1>b, <1>5, <2>1, <2>3, <3>3
  <2> QED BY <2>1, <2>2, <2>3
<1>9. ASSUME UNCHANGED <<attempt, client, mandates, inbox>> PROVE PhaseInv'
  <2>1. Told' = Told
    BY <1>9 DEF Told
  <2> QED BY <1>n, <1>b, <1>5, <1>9, <2>1
<1>10. ASSUME NEW s \in Servers, Crash(s) \/ Restart(s)
       PROVE UNCHANGED <<attempt, client, mandates, inbox>>
  BY <1>10 DEF Crash, Restart
<1>11. ASSUME NEW s \in Servers, NEW l \in Servers, GotLeader(s, l)
       PROVE UNCHANGED <<attempt, client, mandates, inbox>>
  BY <1>11 DEF GotLeader
<1>12. CASE UNCHANGED vars
  BY <1>9, <1>12 DEF vars, serverVars
<1> QED BY <1>1, <1>2, <1>3, <1>4, <1>6, <1>7, <1>8, <1>9, <1>10, <1>11, <1>12,
           AttemptsFacts DEF Next, Server

----------------------------------------------------------------------------
(* A start that nothing happens to.                                        *)
Quiet == late = 0 /\ "start disturbed" \notin faults

(* An answer that is true of the leader l, and the one that is on its way. *)
Truthful(m, l) ==
    IF m.from = l THEN m.type = "ConnectionAvailable"
    ELSE Refers(m) /\ m.leader \in {l, None}

Pending(t) ==
    /\ \/ inbox = <<>> /\ asked[t] = 1
       \/ Len(inbox) = 1 /\ inbox[1].from = t /\ asked[t] = 0
    /\ \A s \in Servers \ {t} : asked[s] = 0

(* The servers before the one that is probed do not lead, the one that is  *)
(* checked does, and nothing but the answer of either is on its way.       *)
Expected(l) ==
    /\ up = Servers /\ leader[l] = l
    /\ \A s \in Servers : leader[s] \in {l, None}
    /\ mandates = 0 /\ connection = None
    /\ attempt[0].dest_ports = Configuration
    /\ \A k \in 1 .. attempt[0].at - 1 : Configuration[k] # l
    /\ attempt[0].phase = "check" => attempt[0].via = l
    /\ Pending(Target(attempt[0]))
    /\ \A k \in DOMAIN inbox : Truthful(inbox[k], l)

StartInv ==
    Quiet => /\ client # "failed"
             /\ client = "starting" => \E l \in Servers : Expected(l)

(* The client asks the first server of the configuration first.            *)
LEMMA StartInit == Init => StartInv
<1> SUFFICES ASSUME Init PROVE StartInv
  OBVIOUS
<1> DEFINE first == Fresh(Configuration)
<1>1. PICK l \in Servers :
         /\ up = Servers
         /\ leader \in [Servers -> {l, None}] /\ leader[l] = l
         /\ attempt = [i \in Attempts |-> IF i = 0 THEN first ELSE Idle]
         /\ asked = [s \in Servers |-> IF s = Head(Configuration) THEN 1 ELSE 0]
         /\ inbox = <<>> /\ connection = None /\ mandates = 0
         /\ client = "starting"
  BY DEF Init
<1>2. /\ first.phase = "probe" /\ first.dest_ports = Configuration
      /\ first.at = 1
  BY Configured, FreshType
<1> HIDE DEF first
<1>3. attempt[0] = first
  BY <1>1, AttemptsFacts
<1>4. Target(attempt[0]) = Head(Configuration)
  BY <1>2, <1>3, Configured DEF Target
<1>5. Head(Configuration) \in Servers
  BY Configured
<1>6. Pending(Target(attempt[0]))
  BY <1>1, <1>4, <1>5 DEF Pending
<1>7. Expected(l)
  BY <1>1, <1>2, <1>3, <1>6 DEF Expected
<1> QED BY <1>1, <1>7 DEF StartInv

(* What has disturbed the start has done so for good.                      *)
LEMMA QuietBefore ==
    ASSUME TypeInv, [Next]_vars, Quiet'
    PROVE  Quiet /\ \A s \in Servers : client = "starting" => ~TakeOver(s) /\ ~Crash(s)
<1>0. late \in Nat /\ TypeOK
  BY DEF TypeInv, TypeOK
<1>1. ASSUME NEW i \in Attempts, try_connection(i) PROVE Quiet
  <2>1. late' = late /\ faults \subseteq faults'
    BY <1>1 DEF try_connection
  <2> QED BY <2>1 DEF Quiet
<1>2. ASSUME NEW i \in Attempts, Timeout(i) PROVE Quiet
  <2>1. (late' = late \/ late' = late + 1) /\ faults' = faults
    BY <1>2 DEF Timeout
  <2>2. late + 1 # 0
    BY <1>0
  <2> QED BY <2>1, <2>2 DEF Quiet
<1>3. ASSUME NEW i \in Attempts, SetupReconnection(i) PROVE Quiet
  BY <1>3 DEF SetupReconnection, Quiet, bounds
<1>4. ASSUME Start \/ ReconnectToNewPedidosRust \/ Unrecognized PROVE Quiet
  BY <1>4 DEF Start, ReconnectToNewPedidosRust, Unrecognized, Quiet, bounds
<1>5. ASSUME NEW s \in Servers, send_connection_answer(s) PROVE Quiet
  BY <1>5 DEF send_connection_answer, Quiet, bounds
<1>6. ASSUME NEW s \in Servers, TakeOver(s) \/ ElectedAgain(s) \/ Crash(s) \/ Restart(s)
      PROVE  Quiet
  <2>1. late' = late /\ faults \subseteq faults'
    BY <1>6 DEF TakeOver, ElectedAgain, Crash, Restart
  <2> QED BY <2>1 DEF Quiet
<1>7. ASSUME NEW s \in Servers, NEW l \in Servers, GotLeader(s, l) PROVE Quiet
  BY <1>7 DEF GotLeader, Quiet, bounds
<1>8. ASSUME UNCHANGED vars PROVE Quiet
  BY <1>8 DEF vars, bounds, Quiet
<1>9. ASSUME NEW s \in Servers, client = "starting", TakeOver(s) \/ Crash(s) PROVE FALSE
  BY <1>9 DEF TakeOver, Crash, Quiet
<1> QED BY <1>1, <1>2, <1>3, <1>4, <1>5, <1>6, <1>7, <1>8, <1>9 DEF Next, Server

(* A start that nothing happens to goes on as expected.                    *)
LEMMA ExpectedStep ==
    ASSUME TypeInv, PhaseInv, [Next]_vars, Quiet', client = "starting",
           NEW l \in Servers, Expected(l)
    PROVE  client' # "failed" /\ (client' = "starting" => Expected(l)')
<1> DEFINE a == attempt[0]
           t == Target(a)
           Goal == client' # "failed" /\ (client' = "starting" => Expected(l)')
<1>0. /\ TypeOK /\ AttemptsOK /\ up \subseteq Servers /\ inbox \in Seq(Datagram)
      /\ asked \in [Servers -> Nat] /\ leader \in [Servers -> Servers \cup {None}]
      /\ None \notin Servers /\ 0 \in Attempts /\ a.phase # "idle"
  BY TypeParts, AttemptsFacts, ReconnectionAssumption DEF TypeInv, ServersOK
<1>a. /\ \A i \in Attempts : Awaits(i) => i = 0
      /\ a.phase \in {"probe", "check"}
  BY AttemptsFacts DEF PhaseInv, NoneBefore, StartPhase, Begun, Awaits
<1>b. /\ up = Servers /\ leader[l] = l /\ mandates = 0 /\ connection = None
      /\ \A s \in Servers : leader[s] \in {l, None}
      /\ a.dest_ports = Configuration
      /\ \A k \in 1 .. a.at - 1 : Configuration[k] # l
      /\ a.phase = "check" => a.via = l
      /\ Pending(t)
      /\ \A k \in DOMAIN inbox : Truthful(inbox[k], l)
  BY DEF Expected
<1>c. Going(a) /\ a.at \in 1 .. Len(Configuration)
  BY <1>0, <1>b, GoingOn, AttemptType
<1>d. t \in Servers /\ (a.phase = "check" => t = l) /\ (a.phase = "probe" => t = Configuration[a.at])
  BY <1>a, <1>b, <1>c, AttemptType DEF Target
<1>e. \A s \in Servers : ~TakeOver(s) /\ ~Crash(s)
  BY QuietBefore
<1> HIDE DEF t
<1>1. ASSUME NEW i \in Attempts, try_connection(i) PROVE Goal
  <2>1. i = 0
    BY <1>1, <1>a DEF try_connection
  <2>2. /\ inbox # <<>> /\ First \in Datagram
        /\ attempt'[0].dest_ports = Configuration
        /\ ReadsOn(0) \/ Connects(0) \/ Refused(0)
        /\ UNCHANGED <<up, leader, mandates>>
    BY <1>0, <1>1, <1>b, <2>1, TryConnection DEF serverVars
  <2>3. /\ Len(inbox) = 1 /\ First = inbox[1] /\ First.from = t
        /\ \A s \in Servers : asked[s] = 0
        /\ Truthful(First, l)
    BY <1>0, <1>b, <1>d, <2>2, Inbox DEF Pending, First
  <2>4. ~Mandated
    BY <2>3 DEF Truthful, Mandated, Refers
  <2>5. CASE ReadsOn(0)
    <3> DEFINE b == attempt'[0]
    <3>1. /\ TriesOn(a, First, b) \/ Checks(a, First, b)
          /\ GoOn(0, b) /\ inbox' = Tail(inbox) /\ connection' = connection
      BY <2>5 DEF ReadsOn
    <3>2. inbox' = <<>>
      BY <1>0, <2>3, <3>1
    <3>3. a.phase = "probe"
      BY <1>d, <2>3, <2>4, <3>1 DEF TriesOn, Checks, Truthful, Mandated, Refers
    <3>4. \/ b.phase = "check" /\ b.via = l /\ b.at = a.at
          \/ b.phase = "probe" /\ b.at = a.at + 1 /\ t # l
      <4>1. CASE Checks(a, First, b)
        <5>1. b.via \in Servers
          BY <1>d, <2>2, <4>1, DatagramFields DEF Checks, t
        <5>2. b.via = l
          BY <1>d, <2>3, <4>1, <5>1 DEF Checks, Truthful, Refers, t
        <5> QED BY <4>1, <5>2 DEF Checks
      <4>2. CASE TriesOn(a, First, b)
        <5>1. b = NextTry(a) /\ t # l
          BY <2>3, <2>4, <4>2 DEF TriesOn, Truthful, Mandated, Refers
        <5>2. a.at # Len(a.dest_ports)
          <6> SUFFICES ASSUME a.at = Len(Configuration) PROVE FALSE
            BY <1>b
          <6>1. PICK k \in DOMAIN Configuration : Configuration[k] = l
            BY ReconnectionAssumption
          <6>2. k \in 1 .. a.at - 1 \/ k = a.at
            BY <1>c, <6>1, Configured
          <6> QED BY <1>b, <1>d, <3>3, <5>1, <6>1, <6>2
        <5>3. PICK c : c = NextTry(a)
          OBVIOUS
        <5>4. c.phase = "probe" /\ c.at = a.at + 1
          BY <1>c, <5>2, <5>3, NextTryType
        <5> QED BY <5>1, <5>3, <5>4
      <4> QED BY <3>1, <4>1, <4>2
    <3>5. /\ asked' = Probing(asked, Target(b)) /\ client' = client
      BY <3>1, <3>4 DEF GoOn
    <3>6. Target(b) \in Servers
      <4>1. Going(b)
        BY <1>0, <1>1, <2>1, TryConnection
      <4> QED BY <3>4, <4>1, AttemptType DEF Target
    <3>7. Pending(Target(attempt[0]))'
      <4>1. PICK u \in Servers : u = Target(b)
        BY <3>6
      <4>2. asked' = Probing(asked, u)
        BY <3>5, <4>1
      <4>3. asked'[u] = asked[u] + 1 /\ \A s \in Servers \ {u} : asked'[s] = asked[s]
        BY <1>0, <1>b, <4>1, <4>2, ProbingType
      <4>4. asked'[u] = 1 /\ \A s \in Servers \ {u} : asked'[s] = 0
        BY <2>3, <4>1, <4>3
      <4> QED BY <3>2, <4>1, <4>4 DEF Pending, Target
    <3>8. \A k \in 1 .. b.at - 1 : Configuration[k] # l
      BY <1>b, <1>c, <1>d, <3>3, <3>4, SMTT(30)
    <3>9. Expected(l)'
      BY <1>b, <2>2, <3>1, <3>2, <3>4, <3>7, <3>8 DEF Expected
    <3> QED BY <3>5, <3>9
  <2>6. CASE Connects(0) \/ Refused(0)
    <3>1. a.phase = "check" /\ a.via \in up
      BY <1>b, <2>6 DEF Connects, Refused, Ends
    <3>2. Connects(0)
      BY <1>b, <2>6, <3>1 DEF Refused
    <3> QED BY <3>2 DEF Connects
  <2> QED BY <2>2, <2>5, <2>6
<1>2. ASSUME NEW i \in Attempts, Timeout(i) PROVE Goal
  <2>1. late' = late \/ late' = late + 1
    BY <1>2 DEF Timeout
  <2>2. late = 0 /\ late' = 0
    BY QuietBefore DEF Quiet
  <2>3. inbox = <<>> /\ \A s \in Servers : asked[s] = 0
    BY <1>2, <2>2 DEF Timeout
  <2> QED BY <1>b, <1>d, <2>3 DEF Pending
<1>3. ASSUME NEW i \in Attempts, SetupReconnection(i) PROVE Goal
  BY <1>3 DEF SetupReconnection
<1>4. ASSUME Start \/ ReconnectToNewPedidosRust \/ Unrecognized PROVE Goal
  BY <1>4 DEF Start, ReconnectToNewPedidosRust, Unrecognized
<1>5. ASSUME NEW s \in Servers, send_connection_answer(s) PROVE Goal
  <2>1. /\ asked[s] > 0 /\ asked' = [asked EXCEPT ![s] = asked[s] - 1]
        /\ inbox' = Append(inbox, AnswerOf(s))
        /\ UNCHANGED <<up, leader, mandates, client, attempt, connection>>
    BY <1>5 DEF send_connection_answer, Delivered, serverVars
  <2>2. s = t /\ inbox = <<>> /\ asked[s] = 1
    BY <1>b, <1>d, <2>1 DEF Pending
  <2>3. PICK m : m = AnswerOf(s)
    OBVIOUS
  <2>4. /\ m \in Datagram /\ m.from = s /\ m.type # "ReconnectionMandate"
        /\ Refers(m) <=> leader[s] # s
        /\ Refers(m) => m.leader = leader[s]
    BY <1>0, <2>3, AnswerType
  <2>5. Truthful(m, l)
    <3>1. m.type \in {"ConnectionAvailable", "ConnectionNotAvailable"}
      BY <2>4, DatagramFields
    <3> QED BY <1>0, <1>b, <2>4, <3>1 DEF Truthful, Refers
  <2>6. Len(inbox') = 1 /\ inbox'[1] = m /\ DOMAIN inbox' = {1}
    BY <2>1, <2>2, <2>3, <2>4
  <2>7. asked'[t] = 0 /\ \A u \in Servers \ {t} : asked'[u] = 0
    BY <1>0, <1>b, <1>d, <2>1, <2>2 DEF Pending
  <2>8. Pending(Target(a))'
    BY <2>1, <2>2, <2>4, <2>6, <2>7 DEF Pending, Target, t
  <2>9. Expected(l)'
    BY <1>b, <2>1, <2>5, <2>6, <2>8 DEF Expected, Truthful, Refers
  <2> QED BY <2>1, <2>9
<1>6. ASSUME NEW s \in Servers, ElectedAgain(s) \/ Restart(s) PROVE Goal
  BY <1>6, <1>b DEF ElectedAgain, Restart
<1>7. ASSUME NEW s \in Servers, NEW r \in Servers, GotLeader(s, r) PROVE Goal
  <2>1. /\ leader[r] = r /\ leader[s] # r /\ leader' = [leader EXCEPT ![s] = r]
        /\ UNCHANGED <<up, mandates, asked, inbox, client, attempt, connection>>
    BY <1>7 DEF GotLeader, Leads
  <2>2. r = l
    BY <1>0, <1>b, <2>1
  <2>3. leader'[l] = l /\ \A u \in Servers : leader'[u] \in {l, None}
    BY <1>0, <1>b, <2>1, <2>2
  <2>4. Pending(Target(attempt[0]))'
    BY <1>b, <2>1 DEF Pending, Target, t
  <2>5. Expected(l)'
    BY <1>b, <2>1, <2>3, <2>4 DEF Expected, Truthful, Refers
  <2> QED BY <2>1, <2>5
<1>8. CASE UNCHANGED vars
  <2>1. UNCHANGED <<up, leader, mandates, asked, inbox, client, attempt, connection>>
    BY <1>8 DEF vars, serverVars
  <2>2. Pending(Target(attempt[0]))'
    BY <1>b, <2>1 DEF Pending, Target, t
  <2>3. Expected(l)'
    BY <1>b, <2>1, <2>2 DEF Expected, Truthful, Refers
  <2> QED BY <2>1, <2>3
<1> QED BY <1>e, <1>1, <1>2, <1>3, <1>4, <1>5, <1>6, <1>7, <1>8 DEF Next, Server

(* A client that has started does not start again, and does not fail.      *)
LEMMA StartedOnce ==
    ASSUME TypeInv, PhaseInv, [Next]_vars, client \in {"connected", "running"}
    PROVE  client' \in {"connected", "running"}
<1>0. TypeOK /\ \A i \in Attempts : Awaits(i) => i # 0
  BY DEF TypeInv, PhaseInv, StartPhase
<1>1. ASSUME NEW i \in Attempts, try_connection(i) PROVE client' = client
  <2>1. i # 0
    BY <1>0, <1>1 DEF try_connection
  <2>2. ReadsOn(i) \/ Connects(i) \/ Refused(i)
    BY <1>0, <1>1, TryConnection
  <2> QED BY <2>1, <2>2 DEF ReadsOn, GoOn, Connects, Refused
<1>2. ASSUME NEW i \in Attempts, Timeout(i) PROVE client' = client
  BY <1>0, <1>2 DEF Timeout, GoOn
<1>3. ASSUME NEW i \in Attempts, SetupReconnection(i) PROVE client' = client
  BY <1>3 DEF SetupReconnection
<1>4. ASSUME Start PROVE client' = "running"
  BY <1>4 DEF Start
<1>5. ASSUME ReconnectToNewPedidosRust PROVE client' = client
  BY <1>0, <1>5, Reconnecting
<1>6. ASSUME Unrecognized PROVE client' = client
  BY <1>6 DEF Unrecognized
<1>7. ASSUME NEW s \in Servers,
             \/ send_connection_answer(s) \/ TakeOver(s) \/ ElectedAgain(s)
             \/ Crash(s) \/ Restart(s) \/ \E l \in Servers : GotLeader(s, l)
      PROVE client' = client
  BY <1>7 DEF send_connection_answer, TakeOver, ElectedAgain, Crash, Restart, GotLeader
<1>8. ASSUME UNCHANGED vars PROVE client' = client
  BY <1>8 DEF vars
<1> QED BY <1>1, <1>2, <1>3, <1>4, <1>5, <1>6, <1>7, <1>8 DEF Next, Server

(* Every step keeps what is expected of a quiet start.                     *)
LEMMA StartStep == TypeInv /\ PhaseInv /\ StartInv /\ [Next]_vars => StartInv'
<1> SUFFICES ASSUME TypeInv, PhaseInv, StartInv, [Next]_vars, Quiet'
             PROVE  /\ client' # "failed"
                    /\ client' = "starting" => \E l \in Servers : Expected(l)'
  BY DEF StartInv
<1>1. Quiet
  BY QuietBefore
<1>2. client \in {"starting", "connected", "running"}
  BY <1>1 DEF StartInv, TypeInv, TypeOK
<1>3. CASE client = "starting"
  <2>1. PICK l \in Servers : Expected(l)
    BY <1>1, <1>3 DEF StartInv
  <2> QED BY <1>3, <2>1, ExpectedStep
<1>4. CASE client \in {"connected", "running"}
  BY <1>4, StartedOnce
<1> QED BY <1>2, <1>3, <1>4

(* However many servers are in the configuration before the leader, and    *)
(* however few of them know it: a client that starts finds it in the first *)
(* pass, unless a server is lost meanwhile or an answer is late.           *)
THEOREM FindsTheLeader == Spec => []StartsWithALeader
<1> DEFINE Inv == TypeInv /\ PhaseInv /\ StartInv
<1>1. Init => Inv
  BY InitType, PhaseInit, StartInit
<1>2. Inv /\ [Next]_vars => Inv'
  BY TypeStep, PhaseStep, StartStep
<1>3. Inv => StartsWithALeader
  <2> SUFFICES ASSUME Inv, client = "failed", ~(late > 0)
               PROVE  "start disturbed" \in faults
    BY DEF StartsWithALeader
  <2>1. late \in Nat
    BY DEF TypeInv, TypeOK
  <2>2. late = 0 /\ ~Quiet
    BY <2>1 DEF StartInv
  <2> QED BY <2>2 DEF Quiet
<1> QED BY <1>1, <1>2, <1>3, PTL DEF Spec

----------------------------------------------------------------------------
(***************************************************************************)
(* Why an attempt to connect to a new leader that lives gives up only when *)
(* its answers were taken: every probe that the leader was sent is on its  *)
(* way to it, or its answer is on its way back, or was read by the attempt,*)
(* or was taken by somebody else.                                          *)
(***************************************************************************)

Port(i) == attempt[i].dest_ports[1]

(* No referral comes from the sender of a mandate behind it, and none from *)
(* the server that an attempt was begun for.                               *)
Ordered ==
    \A k, j \in DOMAIN inbox :
        (/\ k < j /\ inbox[k].type = "ReconnectionMandate"
         /\ inbox[j].from = inbox[k].from)
            => ~Refers(inbox[j])

Addressed ==
    \A i \in Begun : \A j \in DOMAIN inbox :
        inbox[j].from = Port(i) => ~Refers(inbox[j])

OrderInv == restarts = 0 => Ordered /\ Addressed

(* What the server l was asked for and has not been heard of by those who  *)
(* asked: an attempt that a mandate of l began has a claim for each of its *)
(* passes but the one that was answered, another one for its last probe.   *)
For(i, l) == i \in Begun /\ Port(i) = l
Unheard(a) == a.phase \in {"probe", "check", "gave up"}
Asks(a, l) == a.phase \in {"probe", "check"} /\ Target(a) = l

ClaimsOf(i, l) ==
    LET a == attempt[i]
    IN  IF For(i, l) THEN 1 .. (IF Unheard(a) THEN a.pass ELSE a.pass - 1)
        ELSE IF Asks(a, l) THEN {0} ELSE {}

Claims(l) == {c \in Attempts \X (0 .. MaxPasses) : c[2] \in ClaimsOf(c[1], l)}

AnswersOf(l) == {m \in Datagram : m.from = l /\ m.type # "ReconnectionMandate"}
Answers(l) == Count(inbox, AnswersOf(l))

(* The claims are met by the probes and answers on their way, or somebody  *)
(* was robbed; and an attempt was robbed in each of the passes it lost.    *)
Met(l) == Cardinality(Claims(l)) <= robbed + asked[l] + Answers(l)

Lost(a, l) == a.phase = "gave up" \/ (a.phase = "check" /\ a.via # l)

Robbed(i, l) ==
    /\ attempt[i].pass <= robbed + 1
    /\ Lost(attempt[i], l) => attempt[i].pass <= robbed

Fair(l) == Met(l) /\ \A i \in Attempts : For(i, l) => Robbed(i, l)

RobInv == restarts = 0 /\ late = 0 => \A l \in up : Fair(l)

----------------------------------------------------------------------------
(* The referrals.                                                          *)
LEMMA OrderInit == Init => OrderInv
<1> SUFFICES ASSUME Init PROVE Ordered /\ Addressed
  BY DEF OrderInv
<1>1. inbox = <<>>
  BY DEF Init
<1> QED BY <1>1 DEF Ordered, Addressed

(* What is left when a datagram was read is in order still.                *)
LEMMA OrderedTail ==
    ASSUME inbox \in Seq(Datagram), inbox # <<>>, Ordered,
           inbox' = Tail(inbox) \/ inbox' = <<>>
    PROVE  Ordered'
<1>1. CASE inbox' = Tail(inbox)
  <2>1. DOMAIN inbox' \subseteq Nat
    BY <1>1, Inbox
  <2>2. \A k \in DOMAIN inbox' : k + 1 \in DOMAIN inbox /\ inbox'[k] = inbox[k + 1]
    BY <1>1, Inbox
  <2>3. ASSUME NEW k \in DOMAIN inbox', NEW j \in DOMAIN inbox', k < j
        PROVE  k + 1 < j + 1
    BY <2>1, <2>3
  <2> QED BY <2>2, <2>3 DEF Ordered, Refers
<1>2. CASE inbox' = <<>>
  BY <1>2 DEF Ordered
<1> QED BY <1>1, <1>2

(* A datagram that arrives, and does not come from a server that lasts if  *)
(* it refers to another one.                                               *)
LEMMA OrderedMore ==
    ASSUME inbox \in Seq(Datagram), NEW m \in Datagram, inbox' = Delivered(m),
           Ordered, AllHeard, Refers(m) => m.from \notin Lasting
    PROVE  Ordered'
<1>1. /\ DOMAIN inbox \subseteq 1 .. Len(inbox) /\ Len(inbox) \in Nat
      /\ \A k \in DOMAIN inbox' : \/ k \in DOMAIN inbox /\ inbox'[k] = inbox[k]
                                  \/ k = Len(inbox) + 1 /\ inbox'[k] = m
  BY Arrival, Inbox
<1>2. ASSUME NEW k \in DOMAIN inbox', NEW j \in DOMAIN inbox', k < j,
             inbox'[k].type = "ReconnectionMandate",
             inbox'[j].from = inbox'[k].from
      PROVE  ~Refers(inbox'[j])
  <2>1. CASE k \in DOMAIN inbox /\ inbox'[k] = inbox[k]
    <3>1. CASE j \in DOMAIN inbox /\ inbox'[j] = inbox[j]
      BY <1>2, <2>1, <3>1 DEF Ordered
    <3>2. CASE inbox'[j] = m
      <4>1. inbox[k].from \in Lasting
        BY <1>2, <2>1 DEF AllHeard, Heard, Refers
      <4> QED BY <1>2, <2>1, <3>2, <4>1
    <3> QED BY <1>1, <3>1, <3>2
  <2>2. CASE k = Len(inbox) + 1
    BY <1>1, <1>2, <2>2
  <2> QED BY <1>1, <2>1, <2>2
<1> QED BY <1>2 DEF Ordered, Refers

(* The attempts are for the servers they were for.                         *)
SamePorts ==
    /\ Begun' = Begun
    /\ \A i \in Begun : attempt'[i].dest_ports = attempt[i].dest_ports

(* What is left says nothing new of the servers that attempts are for.     *)
LEMMA AddressedTail ==
    ASSUME inbox \in Seq(Datagram), inbox # <<>>, Addressed, SamePorts,
           inbox' = Tail(inbox) \/ inbox' = <<>>
    PROVE  Addressed'
<1>1. \A k \in DOMAIN inbox' : \E j \in DOMAIN inbox : inbox'[k] = inbox[j]
  BY TailLeft
<1> QED BY <1>1 DEF Addressed, SamePorts, Port, Refers

(* Nor does a datagram that comes, if a server that lasts sends no         *)
(* referral.                                                               *)
LEMMA AddressedMore ==
    ASSUME inbox \in Seq(Datagram), NEW m \in Datagram, inbox' = Delivered(m),
           Addressed, Sought, SamePorts, Refers(m) => m.from \notin Lasting
    PROVE  Addressed'
<1>1. \A k \in DOMAIN inbox' : (k \in DOMAIN inbox /\ inbox'[k] = inbox[k]) \/ inbox'[k] = m
  BY Arrival
<1>2. \A i \in Begun : Port(i) \in Lasting
  BY DEF Sought, Begun, Port
<1> QED BY <1>1, <1>2 DEF Addressed, SamePorts, Port, Refers

(* Every step keeps the referrals away from the attempts for their senders.*)
LEMMA OrderStep ==
    TypeInv /\ LeadInv /\ TrueInv /\ PhaseInv /\ OrderInv /\ [Next]_vars
        => OrderInv'
<1> SUFFICES ASSUME TypeInv, LeadInv, TrueInv, PhaseInv, OrderInv, [Next]_vars,
                    restarts' = 0
             PROVE  Ordered' /\ Addressed'
  BY DEF OrderInv
<1>0. /\ TypeOK /\ AttemptsOK /\ inbox \in Seq(Datagram)
      /\ leader \in [Servers -> Servers \cup {None}]
      /\ attempt[0].phase # "idle"
  BY TypeParts DEF TypeInv, ServersOK
<1>b. /\ restarts = 0 /\ AllHeard /\ Sought /\ Ordered /\ Addressed
  BY LastingStays DEF TrueInv, OrderInv
<1>1. ASSUME NEW i \in Attempts, try_connection(i) PROVE Ordered' /\ Addressed'
  <2>1. /\ inbox # <<>>
        /\ attempt[i].phase \in {"probe", "check"} /\ Going(attempt[i])
        /\ \A j \in Attempts \ {i} : attempt'[j] = attempt[j]
        /\ attempt'[i].dest_ports = attempt[i].dest_ports
        /\ ReadsOn(i) \/ Connects(i) \/ Refused(i)
    BY <1>0, <1>1, TryConnection
  <2>2. attempt'[i].phase # "idle"
    BY <2>1, NextTryType DEF ReadsOn, TriesOn, Checks, Connects, Refused
  <2>3. SamePorts
    BY <2>1, <2>2, AttemptsFacts DEF SamePorts, Begun
  <2>4. inbox' = Tail(inbox) \/ inbox' = <<>>
    BY <2>1 DEF ReadsOn, Connects, Refused
  <2> QED BY <1>0, <1>b, <2>1, <2>3, <2>4, OrderedTail, AddressedTail
<1>2. ASSUME UNCHANGED inbox, SamePorts PROVE Ordered' /\ Addressed'
  BY <1>b, <1>2 DEF Ordered, Addressed, SamePorts, Port, Refers
<1>3. ASSUME NEW i \in Attempts, Timeout(i) PROVE Ordered' /\ Addressed'
  <2>1. /\ \A j \in Attempts \ {i} : attempt'[j] = attempt[j]
        /\ attempt[i].phase # "idle" /\ Going(attempt[i])
        /\ attempt'[i] = NextTry(attempt[i])
    BY <1>0, <1>3, TimedOut
  <2>2. PICK a : a = attempt[i]
    OBVIOUS
  <2>3. attempt'[i].phase # "idle" /\ attempt'[i].dest_ports = attempt[i].dest_ports
    BY <2>1, <2>2, NextTryType
  <2>4. SamePorts
    BY <2>1, <2>3, AttemptsFacts DEF SamePorts, Begun
  <2> QED BY <1>2, <1>3, <2>4 DEF Timeout
<1>4. ASSUME NEW i \in Attempts, SetupReconnection(i) \/ (Start /\ i = 0)
      PROVE Ordered' /\ Addressed'
  <2>1. /\ attempt[i].phase # "idle" /\ inbox' = inbox
        /\ attempt' = [attempt EXCEPT ![i].phase = "done"]
    BY <1>0, <1>4 DEF SetupReconnection, Start
  <2>2. /\ \A j \in Attempts \ {i} : attempt'[j] = attempt[j]
        /\ attempt'[i].dest_ports = attempt[i].dest_ports
        /\ attempt'[i].phase = "done"
    BY <1>0, <2>1, OnePhase DEF Phases
  <2>3. SamePorts
    BY <2>1, <2>2, AttemptsFacts DEF SamePorts, Begun
  <2> QED BY <1>2, <2>1, <2>3
<1>5. ASSUME ReconnectToNewPedidosRust PROVE Ordered' /\ Addressed'
  <2> DEFINE b == Fresh(<<First.from>>)
  <2>1. /\ inbox # <<>> /\ Mandated /\ inbox' = Tail(inbox)
        /\ b.phase = "probe" /\ b.dest_ports = <<First.from>>
        /\ \A j \in Attempts : attempt'[j] = IF j = NextIdle THEN b ELSE attempt[j]
    BY <1>0, <1>5, Reconnecting
  <2>2. b.dest_ports[1] = First.from
    BY <2>1
  <2> HIDE DEF b
  <2>3. Ordered'
    BY <1>0, <1>b, <2>1, OrderedTail
  <2>4. PICK n : n = NextIdle
    OBVIOUS
  <2>5. Begun' \subseteq Begun \cup {n}
    BY <2>1, <2>4, AttemptsFacts DEF Begun
  <2>6. ASSUME NEW i \in Begun', NEW j \in DOMAIN inbox', inbox'[j].from = Port(i)'
        PROVE  ~Refers(inbox'[j])
    <3>1. i \in Attempts
      BY AttemptsFacts DEF Begun
    <3>2. /\ j \in Nat /\ j + 1 \in DOMAIN inbox /\ inbox'[j] = inbox[j + 1]
          /\ 1 \in DOMAIN inbox /\ First = inbox[1] /\ 1 < j + 1
      <4>1. j \in 1 .. Len(inbox) - 1
        BY <1>0, <2>1, Inbox
      <4> QED BY <1>0, <2>1, <4>1, Inbox DEF First
    <3>3. CASE i = n
      <4>1. inbox[j + 1].from = inbox[1].from
        BY <2>1, <2>2, <2>4, <2>6, <3>1, <3>2, <3>3 DEF Port
      <4> QED BY <1>b, <2>1, <3>2, <4>1 DEF Ordered, Mandated
    <3>4. CASE i # n
      <4>1. i \in Begun /\ inbox[j + 1].from = Port(i)
        BY <2>1, <2>4, <2>5, <2>6, <3>1, <3>2, <3>4 DEF Port
      <4> QED BY <1>b, <3>2, <4>1 DEF Addressed
    <3> QED BY <3>3, <3>4
  <2>7. Addressed' = \A i \in Begun' : \A j \in DOMAIN inbox' :
                        inbox'[j].from = Port(i)' => ~Refers(inbox'[j])
    BY DEF Addressed, Refers
  <2> QED BY <2>3, <2>6, <2>7
<1>6. CASE Unrecognized
  <2>1. inbox # <<>> /\ inbox' = Tail(inbox) /\ attempt' = attempt
    BY <1>6 DEF Unrecognized
  <2>2. SamePorts
    BY <2>1 DEF SamePorts, Begun
  <2> QED BY <1>0, <1>b, <2>1, <2>2, OrderedTail, AddressedTail
<1>7. ASSUME NEW s \in Servers, send_connection_answer(s) PROVE Ordered' /\ Addressed'
  <2>1. s \in up /\ inbox' = Delivered(AnswerOf(s)) /\ attempt' = attempt
    BY <1>7 DEF send_connection_answer
  <2>2. PICK m : m = AnswerOf(s)
    OBVIOUS
  <2>3. /\ m \in Datagram /\ m.from = s
        /\ Refers(m) <=> leader[s] # s
        /\ inbox' = Delivered(m)
    BY <1>0, <2>1, <2>2, AnswerType
  <2>4. Refers(m) => m.from \notin Lasting
    BY <2>1, <2>3 DEF Lasting
  <2>5. SamePorts
    BY <2>1 DEF SamePorts, Begun
  <2> QED BY <1>0, <1>b, <2>3, <2>4, <2>5, OrderedMore, AddressedMore
<1>8. ASSUME NEW s \in Servers, TakeOver(s) \/ ElectedAgain(s)
      PROVE Ordered' /\ Addressed'
  <2>1. /\ inbox' = inbox \/ inbox' = Delivered(Mandate(s))
        /\ attempt' = attempt
    BY <1>8 DEF TakeOver, ElectedAgain, NotifyAllClientsIAmLeader, Mandate
  <2>2. PICK m : m = Mandate(s)
    OBVIOUS
  <2>3. m \in Datagram /\ ~Refers(m)
    BY <2>2 DEF Mandate, Datagram, Refers
  <2>4. SamePorts
    BY <2>1 DEF SamePorts, Begun
  <2>5. CASE inbox' = Delivered(m)
    BY <1>0, <1>b, <2>3, <2>4, <2>5, OrderedMore, AddressedMore
  <2> QED BY <1>2, <2>1, <2>2, <2>4, <2>5
<1>9. ASSUME UNCHANGED <<inbox, attempt>> PROVE Ordered' /\ Addressed'
  <2>1. SamePorts
    BY <1>9 DEF SamePorts, Begun
  <2> QED BY <1>2, <1>9, <2>1
<1>10. ASSUME NEW s \in Servers,
              Crash(s) \/ Restart(s) \/ \E l \in Servers : GotLeader(s, l)
       PROVE  UNCHANGED <<inbox, attempt>>
  BY <1>10 DEF Crash, Restart, GotLeader
<1>11. CASE UNCHANGED vars
  BY <1>9, <1>11 DEF vars
<1> QED BY <1>1, <1>3, <1>4, <1>5, <1>6, <1>7, <1>8, <1>9, <1>10, <1>11,
           AttemptsFacts DEF Next, Server

----------------------------------------------------------------------------
(* The claims, and how many there are when those of one attempt change.    *)
LEMMA ClaimsType ==
    ASSUME NEW l
    PROVE  IsFiniteSet(Claims(l)) /\ Cardinality(Claims(l)) \in Nat
<1>1. MaxPasses \in Nat
  BY ReconnectionAssumption
<1>2. IsFiniteSet(0 .. MaxPasses)
  BY <1>1, FS_Interval
<1>3. IsFiniteSet(Attempts)
  BY AttemptsFacts, OneMore DEF Attempts
<1>4. IsFiniteSet(Attempts \X (0 .. MaxPasses))
  BY <1>2, <1>3, FS_Product
<1>5. Claims(l) \subseteq Attempts \X (0 .. MaxPasses)
  BY DEF Claims
<1> QED BY <1>4, <1>5, Fewer

(* The claims of an attempt are numbers of its passes, or 0.               *)
LEMMA OwnClaims ==
    ASSUME AttemptsOK, NEW l, NEW i \in Attempts
    PROVE  /\ attempt[i].pass \in 1 .. MaxPasses
           /\ ClaimsOf(i, l) \subseteq 0 .. MaxPasses
<1>1. /\ MaxPasses \in Nat /\ attempt[i].pass \in 1 .. MaxPasses
  BY AttemptPorts, ReconnectionAssumption DEF AttemptsOK
<1>2. PICK n \in 1 .. MaxPasses : n = attempt[i].pass
  BY <1>1
<1>3. /\ 1 .. n \subseteq 0 .. MaxPasses
      /\ 1 .. (n - 1) \subseteq 0 .. MaxPasses
      /\ 0 \in 0 .. MaxPasses
  BY <1>1
<1> QED BY <1>1, <1>2, <1>3 DEF ClaimsOf

(* The same of the next state.                                             *)
LEMMA ClaimsTypeNext ==
    ASSUME NEW l
    PROVE  IsFiniteSet(Claims(l)') /\ Cardinality(Claims(l)') \in Nat
<1>1. MaxPasses \in Nat
  BY ReconnectionAssumption
<1>2. IsFiniteSet(0 .. MaxPasses)
  BY <1>1, FS_Interval
<1>3. IsFiniteSet(Attempts)
  BY AttemptsFacts, OneMore DEF Attempts
<1>4. IsFiniteSet(Attempts \X (0 .. MaxPasses))
  BY <1>2, <1>3, FS_Product
<1>5. Claims(l)' \subseteq Attempts \X (0 .. MaxPasses)
  BY DEF Claims
<1> QED BY <1>4, <1>5, Fewer

(* An attempt that claims nothing new adds none.                           *)
LEMMA NoMoreClaims ==
    ASSUME NEW l, NEW i \in Attempts,
           \A j \in Attempts \ {i} : ClaimsOf(j, l)' = ClaimsOf(j, l),
           ClaimsOf(i, l)' \subseteq ClaimsOf(i, l)
    PROVE  Cardinality(Claims(l)') <= Cardinality(Claims(l))
<1>1. Claims(l)' \subseteq Claims(l)
  BY DEF Claims
<1> QED BY <1>1, ClaimsType, Fewer

(* An attempt that claims one thing more adds one at most.                 *)
LEMMA OneMoreClaim ==
    ASSUME NEW l, NEW i \in Attempts, NEW p,
           \A j \in Attempts \ {i} : ClaimsOf(j, l)' = ClaimsOf(j, l),
           ClaimsOf(i, l)' \subseteq ClaimsOf(i, l) \cup {p}
    PROVE  Cardinality(Claims(l)') <= Cardinality(Claims(l)) + 1
<1> DEFINE C == Claims(l)
           x == <<i, p>>
<1>1. Claims(l)' \subseteq C \cup {x}
  <2>1. ASSUME NEW j \in Attempts, NEW q \in 0 .. MaxPasses,
               q \in ClaimsOf(j, l)'
        PROVE  q \in ClaimsOf(j, l) \/ <<j, q>> = x
    BY <2>1
  <2> QED BY <2>1 DEF Claims
<1>2. IsFiniteSet(C) /\ Cardinality(C) \in Nat
  BY ClaimsType
<1> HIDE DEF C, x
<1>3. CASE x \in C
  <2>1. Claims(l)' \subseteq C
    BY <1>1, <1>3
  <2>2. Cardinality(Claims(l)') <= Cardinality(C) /\ Cardinality(Claims(l)') \in Nat
    BY <1>2, <2>1, Fewer
  <2> QED BY <1>2, <2>2 DEF C
<1>4. CASE x \notin C
  <2>1. IsFiniteSet(C \cup {x}) /\ Cardinality(C \cup {x}) = Cardinality(C) + 1
    BY <1>2, <1>4, OneMore
  <2>2. Cardinality(Claims(l)') <= Cardinality(C \cup {x})
    BY <1>1, <2>1, Fewer
  <2> QED BY <2>1, <2>2 DEF C
<1> QED BY <1>3, <1>4

(* An attempt that drops a claim leaves one less.                          *)
LEMMA OneClaimLess ==
    ASSUME AttemptsOK, NEW l, NEW i \in Attempts, NEW p \in ClaimsOf(i, l),
           \A j \in Attempts \ {i} : ClaimsOf(j, l)' = ClaimsOf(j, l),
           ClaimsOf(i, l)' \subseteq ClaimsOf(i, l) \ {p}
    PROVE  Cardinality(Claims(l)') + 1 <= Cardinality(Claims(l))
<1> DEFINE x == <<i, p>>
           D == Claims(l)'
<1>1. p \in 0 .. MaxPasses
  BY OwnClaims
<1>2. x \in Claims(l)
  BY <1>1 DEF Claims
<1>3. D \subseteq Claims(l) /\ x \notin D
  BY DEF Claims
<1>4. IsFiniteSet(D) /\ Cardinality(D) \in Nat
  BY ClaimsTypeNext
<1> HIDE DEF x, D
<1>5. Cardinality(D \cup {x}) = Cardinality(D) + 1
  BY <1>3, <1>4, OneMore
<1>6. Cardinality(D \cup {x}) <= Cardinality(Claims(l))
  BY <1>2, <1>3, ClaimsType, Fewer
<1> QED BY <1>5, <1>6 DEF D

(* An attempt for the server l that waits for an answer has a claim for    *)
(* each of its passes.                                                     *)
LEMMA ClaimsForPasses ==
    ASSUME AttemptsOK, NEW l, NEW i \in Attempts, For(i, l), Unheard(attempt[i])
    PROVE  attempt[i].pass <= Cardinality(Claims(l))
<1>0. MaxPasses \in Nat /\ attempt[i].pass \in 1 .. MaxPasses
  BY OwnClaims, ReconnectionAssumption
<1>1. PICK n \in 1 .. MaxPasses : n = attempt[i].pass
  BY <1>0
<1>2. n \in Nat /\ 1 .. n \subseteq 0 .. MaxPasses
  BY <1>0
<1>3. ClaimsOf(i, l) = 1 .. n
  BY <1>1 DEF ClaimsOf
<1> DEFINE f == [p \in 1 .. n |-> <<i, p>>]
<1>4. f \in [1 .. n -> Claims(l)]
  BY <1>2, <1>3 DEF Claims
<1>5. \A p, q \in 1 .. n : f[p] = f[q] => p = q
  OBVIOUS
<1>6. IsFiniteSet(1 .. n) /\ Cardinality(1 .. n) = n
  BY <1>2, FS_Interval
<1> HIDE DEF f
<1>7. f \in Injection(1 .. n, Claims(l))
  BY <1>4, <1>5 DEF Injection, IsInjective
<1>8. Cardinality(1 .. n) <= Cardinality(Claims(l))
  BY <1>7, ClaimsType, FS_Injection
<1> QED BY <1>1, <1>6, <1>8

(* Those who do not take part have the claims that they had.               *)
LEMMA OthersClaims ==
    ASSUME NEW l, NEW j \in Attempts, attempt'[j] = attempt[j]
    PROVE  /\ For(j, l)' = For(j, l)
           /\ ClaimsOf(j, l)' = ClaimsOf(j, l)
<1>1. For(j, l)' = For(j, l)
  BY DEF For, Begun, Port
<1> QED BY <1>1 DEF ClaimsOf, Unheard, Asks, Target

CountsOK(l) ==
    /\ Cardinality(Claims(l)) \in Nat
    /\ robbed \in Nat /\ asked[l] \in Nat /\ Answers(l) \in Nat

(* What has to be so for the claims to be met again: each answer that was  *)
(* read meets a claim, was another's, or leads to another probe, and so    *)
(* does each new claim.                                                    *)
LEMMA MetNext ==
    ASSUME NEW l, Met(l), CountsOK(l), CountsOK(l)',
           NEW dropped \in {0, 1}, NEW added \in {0, 1}, NEW read \in {0, 1},
           NEW taken \in {0, 1}, NEW probed \in {0, 1},
           Cardinality(Claims(l)') + dropped <= Cardinality(Claims(l)) + added,
           Answers(l) <= Answers(l)' + read,
           robbed' = robbed + taken, asked'[l] = asked[l] + probed,
           added + read <= dropped + taken + probed
    PROVE  Met(l)'
<1>1. PICK c, r, k, n \in Nat : /\ c = Cardinality(Claims(l)) /\ r = robbed
                                /\ k = asked[l] /\ n = Answers(l)
  BY DEF CountsOK
<1>2. PICK c2, r2, k2, n2 \in Nat :
         /\ c2 = Cardinality(Claims(l)') /\ r2 = robbed'
         /\ k2 = asked'[l] /\ n2 = Answers(l)'
  BY DEF CountsOK
<1>3. c <= r + k + n
  BY <1>1 DEF Met
<1>4. /\ c2 + dropped <= c + added /\ n <= n2 + read
      /\ r2 = r + taken /\ k2 = k + probed
  BY <1>1, <1>2
<1>5. c2 <= r2 + k2 + n2
  BY <1>3, <1>4
<1> QED BY <1>2, <1>5 DEF Met

(* What is counted are numbers.                                            *)
LEMMA CountsType ==
    ASSUME TypeInv, TypeInv', NEW l \in Servers
    PROVE  CountsOK(l) /\ CountsOK(l)'
<1>1. /\ robbed \in Nat /\ asked[l] \in Nat /\ inbox \in Seq(Datagram)
      /\ robbed' \in Nat /\ asked'[l] \in Nat /\ inbox' \in Seq(Datagram)
  BY DEF TypeInv, TypeOK
<1>2. Answers(l) \in Nat
  BY <1>1, CountType DEF Answers
<1>3. Count(inbox', AnswersOf(l)) \in Nat
  BY <1>1, CountType
<1>4. Answers(l)' \in Nat
  BY <1>3 DEF Answers, AnswersOf
<1> QED BY <1>1, <1>2, <1>4, ClaimsType, ClaimsTypeNext DEF CountsOK

(* The answers of l that are left when a datagram was read, or has come.   *)
LEMMA AnswersOne ==
    ASSUME inbox \in Seq(Datagram), inbox # <<>>, inbox' = Tail(inbox), NEW l
    PROVE  Answers(l) = Answers(l)' + (IF First.from = l /\ ~Mandated THEN 1 ELSE 0)
<1>1. First \in Datagram
  BY Inbox DEF First
<1>2. Answers(l) = Count(Tail(inbox), AnswersOf(l))
                      + (IF First \in AnswersOf(l) THEN 1 ELSE 0)
  BY CountTail DEF Answers, First
<1>3. Answers(l)' = Count(Tail(inbox), AnswersOf(l))
  BY DEF Answers, AnswersOf
<1>4. First \in AnswersOf(l) <=> First.from = l /\ ~Mandated
  BY <1>1 DEF AnswersOf, Mandated
<1> QED BY <1>2, <1>3, <1>4

(* An answer that comes is counted if the client has a socket bound.       *)
LEMMA AnswersMore ==
    ASSUME inbox \in Seq(Datagram), NEW m \in Datagram, NEW l,
           inbox' = Delivered(m)
    PROVE  /\ Answers(l)' = Answers(l) + (IF inbox' # inbox /\ m \in AnswersOf(l) THEN 1 ELSE 0)
           /\ inbox' # inbox <=> client \in {"starting", "running"}
<1>1. CASE client \in {"starting", "running"}
  <2>1. inbox' = Append(inbox, m)
    BY <1>1 DEF Delivered
  <2>2. inbox' # inbox
    BY <2>1
  <2>3. Count(Append(inbox, m), AnswersOf(l))
           = Count(inbox, AnswersOf(l)) + (IF m \in AnswersOf(l) THEN 1 ELSE 0)
    BY CountAppend
  <2> QED BY <1>1, <2>1, <2>2, <2>3 DEF Answers, AnswersOf
<1>2. CASE client \notin {"starting", "running"}
  <2>1. inbox' = inbox
    BY <1>2 DEF Delivered
  <2>2. Answers(l)' = Answers(l) /\ Answers(l) \in Nat
    BY <2>1, CountType DEF Answers, AnswersOf
  <2> QED BY <1>2, <2>1, <2>2
<1> QED BY <1>1, <1>2

(* A client that is not bound has no claims.                               *)
LEMMA UnboundClaimsNothing ==
    ASSUME PhaseInv, NEW l, client \notin {"starting", "running"}
    PROVE  Claims(l) = {}
<1>1. \A i \in Attempts : attempt[i].phase \notin {"probe", "check"} /\ i \notin Begun
  BY AttemptsFacts DEF PhaseInv, StartPhase, NoneBefore, Begun, Awaits
<1>2. \A i \in Attempts : ClaimsOf(i, l) = {}
  BY <1>1 DEF ClaimsOf, For, Asks
<1> QED BY <1>2 DEF Claims

(* A probe that an attempt sends to a server that is up.                   *)
LEMMA ProbeSent ==
    ASSUME asked \in [Servers -> Nat], up \subseteq Servers,
           NEW i, NEW b, GoOn(i, b), NEW l \in up
    PROVE  asked'[l] = asked[l] + (IF Asks(b, l) THEN 1 ELSE 0)
<1>1. PICK t : t = Target(b)
  OBVIOUS
<1>2. asked[l] \in Nat
  OBVIOUS
<1>3. CASE b.phase \in {"probe", "check"}
  <2>1. asked' = Probing(asked, t)
    BY <1>1, <1>3 DEF GoOn
  <2>2. asked'[l] = IF l = t THEN asked[l] + 1 ELSE asked[l]
    BY <2>1, ProbingType
  <2>3. Asks(b, l) <=> l = t
    BY <1>1, <1>3 DEF Asks
  <2> QED BY <1>2, <2>2, <2>3
<1>4. CASE b.phase \notin {"probe", "check"}
  <2>1. asked' = asked /\ ~Asks(b, l)
    BY <1>4 DEF GoOn, Asks
  <2> QED BY <1>2, <2>1
<1> QED BY <1>3, <1>4

----------------------------------------------------------------------------
(* A datagram is read by an attempt for l: what it gains and loses.        *)
LEMMA TryOwn ==
    ASSUME TypeInv, TypeInv', PhaseInv, Addressed, NEW i \in Attempts,
           try_connection(i), NEW l \in up, For(i, l), Met(l), Robbed(i, l)
    PROVE  Met(l)' /\ For(i, l)' /\ Robbed(i, l)'
<1> DEFINE a == attempt[i]
           b == attempt'[i]
<1>0. /\ TypeOK /\ AttemptsOK /\ AttemptsOK' /\ inbox \in Seq(Datagram)
      /\ up \subseteq Servers /\ asked \in [Servers -> Nat]
      /\ CountsOK(l) /\ CountsOK(l)' /\ robbed \in Nat
  BY TypeParts, CountsType DEF TypeInv, ServersOK, BoundsOK, TypeOK, AttemptsOK
<1>1. /\ inbox # <<>> /\ First \in Datagram
      /\ a.phase \in {"probe", "check"} /\ Going(a)
      /\ \A j \in Attempts \ {i} : attempt'[j] = attempt[j]
      /\ b.dest_ports = a.dest_ports
      /\ ReadsOn(i) \/ Connects(i) \/ Refused(i)
  BY <1>0, TryConnection
<1>2. robbed' = IF Mandated \/ Misread(i) THEN robbed + 1 ELSE robbed
  BY <1>0, TryConnection
<1>3. /\ i \in Begun /\ i # 0 /\ a.dest_ports[1] = l /\ Len(a.dest_ports) = 1
      /\ a.at = 1
  <2>1. i \in Begun /\ a.dest_ports[1] = l
    BY DEF For, Port
  <2>2. Len(a.dest_ports) = 1
    BY <2>1 DEF PhaseInv, OnePort
  <2>3. a.at \in 1 .. Len(a.dest_ports)
    BY <1>1, AttemptType
  <2>4. i # 0
    BY <2>1, AttemptsFacts DEF Begun
  <2> QED BY <2>1, <2>2, <2>3, <2>4
<1>4. inbox' = Tail(inbox)
  BY <1>1, <1>3 DEF ReadsOn, Connects, Refused
<1>5. /\ b.phase # "idle"
  BY <1>1, NextTryType DEF ReadsOn, TriesOn, Checks, Connects, Refused
<1>6. For(i, l)'
  BY <1>1, <1>3, <1>5 DEF For, Begun, Port
<1>7. PICK n \in Nat : n = a.pass /\ n >= 1
  <2>1. a.pass \in 1 .. MaxPasses /\ MaxPasses \in Nat
    BY <1>0, OwnClaims, ReconnectionAssumption
  <2>2. PICK n \in 1 .. MaxPasses : n = a.pass
    BY <2>1
  <2>3. n \in Nat /\ n >= 1
    BY <2>1, <2>2
  <2> QED BY <2>2, <2>3
<1>8. ClaimsOf(i, l) = 1 .. n
  <2>1. Unheard(a)
    BY <1>1 DEF Unheard
  <2> QED BY <1>7, <2>1 DEF ClaimsOf
<1>9. \A j \in Attempts \ {i} : ClaimsOf(j, l)' = ClaimsOf(j, l)
  BY <1>1, OthersClaims
<1>10. ClaimsOf(i, l)' = 1 .. (IF Unheard(b) THEN b.pass ELSE b.pass - 1)
  BY <1>6 DEF ClaimsOf, Unheard
<1>11. /\ Answers(l) = Answers(l)' + (IF First.from = l /\ ~Mandated THEN 1 ELSE 0)
       /\ Answers(l) \in Nat /\ Answers(l)' \in Nat
       /\ Cardinality(Claims(l)) \in Nat /\ Cardinality(Claims(l)') \in Nat
       /\ robbed' \in Nat /\ asked[l] \in Nat
  BY <1>0, <1>1, <1>4, AnswersOne DEF CountsOK
<1>12. /\ n <= robbed + 1
       /\ Lost(a, l) => n <= robbed
  BY <1>7 DEF Robbed
<1>13. a.phase = "probe" => Target(a) = l
  BY <1>3 DEF Target
<1>14. First.from = l => ~Refers(First)
  <2>1. First = inbox[1] /\ 1 \in DOMAIN inbox
    BY <1>0, <1>1, Inbox DEF First
  <2> QED BY <1>3, <2>1 DEF Addressed, Port
<1> HIDE DEF a, b
<1>20. CASE ReadsOn(i) /\ TriesOn(a, First, b)
  <2>1. b = NextTry(a)
    BY <1>20 DEF TriesOn
  <2>2. Mandated \/ (Misread(i) /\ First.from # l)
    BY <1>13, <1>14, <1>20 DEF TriesOn, Mandated, Misread, a, Refers
  <2>3. robbed' = robbed + 1 /\ Answers(l) = Answers(l)'
    BY <1>2, <1>11, <2>2
  <2>4. asked'[l] = asked[l] + (IF Asks(b, l) THEN 1 ELSE 0)
    <3>1. PICK c : c = b
      OBVIOUS
    <3>2. GoOn(i, c)
      BY <1>20, <3>1 DEF ReadsOn, b
    <3> QED BY <1>0, <3>1, <3>2, ProbeSent
  <2>5. CASE b.phase = "probe" /\ b.at = 1 /\ b.pass = a.pass + 1
    <3>1. Unheard(b) /\ Asks(b, l) /\ ~Lost(b, l)
      BY <1>1, <1>3, <2>5 DEF Unheard, Asks, Target, Lost, a, b
    <3>2. b.pass = n + 1
      BY <1>7, <2>5
    <3>3. ClaimsOf(i, l)' \subseteq ClaimsOf(i, l) \cup {n + 1}
      BY <1>8, <1>10, <3>1, <3>2
    <3>4. Cardinality(Claims(l)') <= Cardinality(Claims(l)) + 1
      BY <1>9, <3>3, OneMoreClaim
    <3>5. asked'[l] = asked[l] + 1
      BY <2>4, <3>1
    <3>6. Met(l)'
      <4>1. /\ Cardinality(Claims(l)') + 0 <= Cardinality(Claims(l)) + 1
            /\ Answers(l) <= Answers(l)' + 0
            /\ 0 \in {0, 1} /\ 1 \in {0, 1} /\ 1 + 0 <= 0 + 1 + 1
        BY <1>11, <2>3, <3>4
      <4> QED BY <1>0, <2>3, <3>5, <4>1, MetNext
    <3>7. Robbed(i, l)'
      <4>1. b.pass <= robbed' + 1
        BY <1>0, <1>12, <2>3, <3>2
      <4> QED BY <3>1, <4>1 DEF Robbed, Lost, b
    <3> QED BY <1>6, <3>6, <3>7
  <2>6. CASE b.phase = "gave up" /\ b.pass = a.pass
    <3>1. Unheard(b) /\ ~Asks(b, l)
      BY <2>6 DEF Unheard, Asks
    <3>2. ClaimsOf(i, l)' \subseteq ClaimsOf(i, l)
      BY <1>7, <1>8, <1>10, <2>6, <3>1
    <3>3. Cardinality(Claims(l)') <= Cardinality(Claims(l))
      BY <1>9, <3>2, NoMoreClaims
    <3>4. asked'[l] = asked[l] + 0
      BY <2>4, <3>1
    <3>5. Met(l)'
      <4>1. /\ Cardinality(Claims(l)') + 0 <= Cardinality(Claims(l)) + 0
            /\ Answers(l) <= Answers(l)' + 0
            /\ 0 \in {0, 1} /\ 1 \in {0, 1} /\ 0 + 0 <= 0 + 1 + 0
        BY <1>11, <2>3, <3>3
      <4> QED BY <1>0, <2>3, <3>4, <4>1, MetNext
    <3>6. Robbed(i, l)'
      <4>1. PICK r \in Nat : r = robbed'
        BY <1>11
      <4>2. n <= r /\ n <= r + 1
        BY <1>0, <1>12, <2>3, <4>1
      <4>3. b.pass <= robbed' /\ b.pass <= robbed' + 1
        BY <1>7, <2>6, <4>1, <4>2
      <4> QED BY <4>3 DEF Robbed, b
    <3> QED BY <1>6, <3>5, <3>6
  <2>7. a.at = Len(a.dest_ports) /\ Going(a)
    BY <1>1, <1>3 DEF a
  <2>8. ~(a.at < Len(a.dest_ports))
    BY <1>3 DEF a
  <2> QED BY <2>1, <2>5, <2>6, <2>7, <2>8, NextTryType
<1>21. CASE ReadsOn(i) /\ Checks(a, First, b)
  <2>1. b.phase = "check" /\ b.pass = a.pass /\ a.phase = "probe"
    BY <1>21 DEF Checks
  <2>2. b.pass = n /\ Unheard(b)
    BY <1>7, <2>1 DEF Unheard
  <2>3. ClaimsOf(i, l)' \subseteq ClaimsOf(i, l)
    BY <1>8, <1>10, <2>2
  <2>4. Cardinality(Claims(l)') <= Cardinality(Claims(l))
    BY <1>9, <2>3, NoMoreClaims
  <2>5. asked'[l] = asked[l] + (IF Asks(b, l) THEN 1 ELSE 0)
    <3>1. PICK c : c = b
      OBVIOUS
    <3>2. GoOn(i, c)
      BY <1>21, <3>1 DEF ReadsOn, b
    <3> QED BY <1>0, <3>1, <3>2, ProbeSent
  <2>6. ~Mandated
    BY <1>21 DEF Checks, Mandated, Refers
  <2>7. CASE First.from = l
    <3>1. b.via = l /\ ~Misread(i)
      BY <1>13, <1>14, <1>21, <2>1, <2>7 DEF Checks, Misread, a
    <3>2. robbed' = robbed + 0 /\ Answers(l) = Answers(l)' + 1
      BY <1>0, <1>2, <1>11, <2>6, <2>7, <3>1
    <3>3. Asks(b, l) /\ ~Lost(b, l)
      BY <2>1, <3>1 DEF Asks, Target, Lost
    <3>4. asked'[l] = asked[l] + 1
      BY <2>5, <3>3
    <3>5. Met(l)'
      <4>1. /\ Cardinality(Claims(l)') + 0 <= Cardinality(Claims(l)) + 0
            /\ Answers(l) <= Answers(l)' + 1
            /\ 0 \in {0, 1} /\ 1 \in {0, 1} /\ 0 + 1 <= 0 + 0 + 1
        BY <1>11, <2>4, <3>2
      <4> QED BY <1>0, <3>2, <3>4, <4>1, MetNext
    <3>6. Robbed(i, l)'
      <4>1. b.pass <= robbed' + 1
        BY <1>0, <1>12, <2>2, <3>2
      <4> QED BY <3>3, <4>1 DEF Robbed, Lost, b
    <3> QED BY <1>6, <3>5, <3>6
  <2>8. CASE First.from # l
    <3>1. Misread(i)
      BY <1>13, <2>1, <2>6, <2>8 DEF Misread, a
    <3>2. robbed' = robbed + 1 /\ Answers(l) = Answers(l)'
      BY <1>2, <1>11, <2>8, <3>1
    <3>3. Met(l)'
      <4>1. /\ Cardinality(Claims(l)') + 0 <= Cardinality(Claims(l)) + 0
            /\ Answers(l) <= Answers(l)' + 0
            /\ 0 \in {0, 1} /\ 1 \in {0, 1}
            /\ 0 + 0 <= 0 + 1 + 0 /\ 0 + 0 <= 0 + 1 + 1
        BY <1>11, <2>4, <3>2
      <4>2. CASE Asks(b, l)
        <5>1. asked'[l] = asked[l] + 1
          BY <2>5, <4>2
        <5> QED BY <1>0, <3>2, <4>1, <5>1, MetNext
      <4>3. CASE ~Asks(b, l)
        <5>1. asked'[l] = asked[l] + 0
          BY <2>5, <4>3
        <5> QED BY <1>0, <3>2, <4>1, <5>1, MetNext
      <4> QED BY <4>2, <4>3
    <3>4. Robbed(i, l)'
      <4>1. b.pass <= robbed' + 1 /\ b.pass <= robbed'
        BY <1>0, <1>12, <2>2, <3>2
      <4> QED BY <4>1 DEF Robbed, b
    <3> QED BY <1>6, <3>3, <3>4
  <2> QED BY <2>7, <2>8
<1>22. CASE Connects(i) \/ Refused(i)
  <2>1. /\ b.phase \in {"setup", "refused"} /\ b.pass = a.pass
        /\ asked'[l] = asked[l]
    BY <1>22 DEF Connects, Refused, Ends, a, b
  <2>2. b.pass = n /\ ~Unheard(b) /\ ~Lost(b, l)
    BY <1>7, <2>1 DEF Unheard, Lost
  <2>3. n \in ClaimsOf(i, l) /\ ClaimsOf(i, l)' \subseteq ClaimsOf(i, l) \ {n}
    BY <1>7, <1>8, <1>10, <2>2
  <2>4. Cardinality(Claims(l)') + 1 <= Cardinality(Claims(l))
    BY <1>0, <1>9, <2>3, OneClaimLess
  <2>5. PICK r \in {0, 1} : robbed' = robbed + r
    BY <1>0, <1>2
  <2>6. PICK e \in {0, 1} : Answers(l) = Answers(l)' + e
    BY <1>11
  <2>7. Met(l)'
    <3>1. /\ Cardinality(Claims(l)') + 1 <= Cardinality(Claims(l)) + 0
          /\ Answers(l) <= Answers(l)' + e
          /\ 0 \in {0, 1} /\ 1 \in {0, 1}
          /\ asked'[l] = asked[l] + 0
          /\ 0 + e <= 1 + r + 0
      BY <1>11, <2>1, <2>4, <2>6
    <3> QED BY <1>0, <2>5, <3>1, MetNext
  <2>8. Robbed(i, l)'
    <3>1. b.pass <= robbed' + 1
      BY <1>0, <1>12, <2>2, <2>5
    <3> QED BY <2>2, <3>1 DEF Robbed, Lost, b
  <2> QED BY <1>6, <2>7, <2>8
<1> QED BY <1>1, <1>20, <1>21, <1>22 DEF ReadsOn, a, b

(* The claims on l of an attempt that is not for it: one while it waits for*)
(* the answer of l.                                                        *)
LEMMA OtherClaims ==
    ASSUME AttemptsOK, NEW l, NEW i \in Attempts, ~For(i, l), ~For(i, l)',
           \A j \in Attempts \ {i} : attempt'[j] = attempt[j],
           NEW dropped, NEW added,
           dropped = (IF Asks(attempt[i], l) /\ ~Asks(attempt'[i], l) THEN 1 ELSE 0),
           added = (IF ~Asks(attempt[i], l) /\ Asks(attempt'[i], l) THEN 1 ELSE 0)
    PROVE  Cardinality(Claims(l)') + dropped <= Cardinality(Claims(l)) + added
<1>1. ClaimsOf(i, l) = IF Asks(attempt[i], l) THEN {0} ELSE {}
  BY DEF ClaimsOf
<1>2. ClaimsOf(i, l)' = IF Asks(attempt'[i], l) THEN {0} ELSE {}
  BY DEF ClaimsOf, Asks, Target
<1>3. \A j \in Attempts \ {i} : ClaimsOf(j, l)' = ClaimsOf(j, l)
  BY OthersClaims
<1>4. Cardinality(Claims(l)) \in Nat /\ Cardinality(Claims(l)') \in Nat
  BY ClaimsType, ClaimsTypeNext
<1>5. CASE Asks(attempt[i], l) /\ ~Asks(attempt'[i], l)
  <2>1. Cardinality(Claims(l)') + 1 <= Cardinality(Claims(l))
    <3>1. 0 \in ClaimsOf(i, l) /\ ClaimsOf(i, l)' \subseteq ClaimsOf(i, l) \ {0}
      BY <1>1, <1>2, <1>5
    <3> QED BY <1>3, <3>1, OneClaimLess
  <2>2. dropped = 1 /\ added = 0
    BY <1>5
  <2> HIDE DEF For, Asks
  <2> QED BY <1>4, <2>1, <2>2
<1>6. CASE ~Asks(attempt[i], l) /\ Asks(attempt'[i], l)
  <2>1. Cardinality(Claims(l)') <= Cardinality(Claims(l)) + 1
    <3>1. ClaimsOf(i, l)' \subseteq ClaimsOf(i, l) \cup {0}
      BY <1>1, <1>2, <1>6
    <3> QED BY <1>3, <3>1, OneMoreClaim
  <2>2. dropped = 0 /\ added = 1
    BY <1>6
  <2> QED BY <1>4, <2>1, <2>2
<1>7. CASE Asks(attempt[i], l) <=> Asks(attempt'[i], l)
  <2>1. Cardinality(Claims(l)') <= Cardinality(Claims(l))
    <3>1. ClaimsOf(i, l)' \subseteq ClaimsOf(i, l)
      BY <1>1, <1>2, <1>7
    <3> QED BY <1>3, <3>1, NoMoreClaims
  <2>2. dropped = 0 /\ added = 0
    BY <1>7
  <2> QED BY <1>4, <2>1, <2>2
<1> QED BY <1>5, <1>6, <1>7

(* A datagram is read by an attempt that is not for l: if it answers l's   *)
(* probe, a claim is met; else it is another's, who was robbed.            *)
LEMMA TryOther ==
    ASSUME TypeInv, TypeInv', PhaseInv, NEW i \in Attempts,
           try_connection(i), NEW l \in up, ~For(i, l), Met(l)
    PROVE  Met(l)' /\ ~For(i, l)'
<1> DEFINE a == attempt[i]
           b == attempt'[i]
<1>0. /\ TypeOK /\ AttemptsOK /\ AttemptsOK' /\ inbox \in Seq(Datagram)
      /\ up \subseteq Servers /\ asked \in [Servers -> Nat]
      /\ CountsOK(l) /\ CountsOK(l)' /\ robbed \in Nat
  BY TypeParts, CountsType DEF TypeInv, ServersOK, BoundsOK, TypeOK, AttemptsOK
<1>1. /\ inbox # <<>> /\ First \in Datagram
      /\ a.phase \in {"probe", "check"} /\ Going(a)
      /\ \A j \in Attempts \ {i} : attempt'[j] = attempt[j]
      /\ b.dest_ports = a.dest_ports
      /\ ReadsOn(i) \/ Connects(i) \/ Refused(i)
  BY <1>0, TryConnection
<1>2. robbed' = IF Mandated \/ Misread(i) THEN robbed + 1 ELSE robbed
  BY <1>0, TryConnection
<1>3. ~For(i, l)'
  BY <1>1 DEF For, Begun, Port
<1>4. /\ Asks(a, l) <=> Target(a) = l
      /\ CountsOK(l) /\ CountsOK(l)'
  BY <1>0, <1>1 DEF Asks
<1> DEFINE dropped == IF Asks(a, l) /\ ~Asks(b, l) THEN 1 ELSE 0
           added == IF ~Asks(a, l) /\ Asks(b, l) THEN 1 ELSE 0
           read == IF First.from = l /\ ~Mandated THEN 1 ELSE 0
           taken == IF Mandated \/ Misread(i) THEN 1 ELSE 0
           probed == IF Asks(b, l) THEN 1 ELSE 0
<1>5. /\ dropped \in {0, 1} /\ added \in {0, 1} /\ read \in {0, 1}
      /\ taken \in {0, 1} /\ probed \in {0, 1}
      /\ robbed' = robbed + taken
  <2>1. robbed + 0 = robbed
    BY <1>0
  <2> QED BY <1>2, <2>1
<1>6. read = 1 => taken = 1 \/ Asks(a, l)
  BY <1>4 DEF Misread
<1>7. Cardinality(Claims(l)') + dropped <= Cardinality(Claims(l)) + added
  BY <1>0, <1>1, <1>3, OtherClaims
<1>8. added + read <= dropped + taken + probed
  <2>1. CASE Asks(a, l)
    <3>1. added = 0 /\ (dropped = 1 \/ probed = 1)
      BY <2>1
    <3> HIDE DEF dropped, added, read, taken, probed
    <3> QED BY <1>5, <3>1
  <2>2. CASE ~Asks(a, l)
    <3>1. added = probed /\ (read = 0 \/ taken = 1)
      BY <1>5, <1>6, <2>2
    <3> HIDE DEF dropped, added, read, taken, probed
    <3> QED BY <1>5, <3>1
  <2> QED BY <2>1, <2>2
<1>9. inbox' = Tail(inbox) => Answers(l) <= Answers(l)' + read
  <2>1. ASSUME inbox' = Tail(inbox) PROVE Answers(l) = Answers(l)' + read
    BY <1>0, <1>1, <2>1, AnswersOne
  <2>2. PICK x, y \in Nat : x = Answers(l) /\ y = Answers(l)'
    BY <1>0 DEF CountsOK
  <2> HIDE DEF read
  <2> QED BY <1>5, <2>1, <2>2
<1>10. CASE ReadsOn(i)
  <2>1. inbox' = Tail(inbox)
    BY <1>10 DEF ReadsOn
  <2>2. asked'[l] = asked[l] + probed
    <3>1. PICK c : c = b
      OBVIOUS
    <3>2. GoOn(i, c)
      BY <1>10, <3>1 DEF ReadsOn
    <3> QED BY <1>0, <3>1, <3>2, ProbeSent
  <2> HIDE DEF dropped, added, read, taken, probed
  <2> QED BY <1>0, <1>3, <1>5, <1>7, <1>8, <1>9, <2>1, <2>2, MetNext
<1>11. CASE (Connects(i) \/ Refused(i)) /\ inbox' = Tail(inbox)
  <2>1. asked' = asked /\ ~Asks(b, l)
    BY <1>11 DEF Connects, Refused, Ends, Asks
  <2>2. asked'[l] = asked[l] + probed
    <3>1. probed = 0 /\ asked[l] \in Nat
      BY <1>0, <2>1
    <3> HIDE DEF probed
    <3> QED BY <2>1, <3>1
  <2> HIDE DEF dropped, added, read, taken, probed
  <2> QED BY <1>0, <1>3, <1>5, <1>7, <1>8, <1>9, <1>11, <2>2, MetNext
<1>12. CASE Connects(i) /\ i = 0
  <2>1. Begun = {}
    BY <1>1, <1>12 DEF PhaseInv, StartPhase, NoneBefore, Awaits
  <2>2. \A j \in Attempts : ClaimsOf(j, l)' = {}
    <3>1. ASSUME NEW j \in Attempts \ {0} PROVE ClaimsOf(j, l)' = {}
      <4>1. j \notin Begun /\ j \in Mandates
        BY <2>1, <3>1, AttemptsFacts
      <4>2. attempt'[j] = attempt[j] /\ attempt[j].phase = "idle"
        BY <1>1, <1>12, <4>1 DEF Begun
      <4> QED BY <4>2 DEF ClaimsOf, For, Begun, Asks
    <3>2. b.phase = "setup"
      BY <1>12 DEF Connects
    <3>3. ClaimsOf(0, l)' = {}
      BY <1>3, <1>12, <3>2 DEF ClaimsOf, Asks
    <3> QED BY <3>1, <3>3
  <2>3. Claims(l)' = {}
    BY <2>2 DEF Claims
  <2>4. Cardinality(Claims(l)') = 0
    BY <2>3, FS_EmptySet
  <2>5. PICK r, k, n \in Nat : r = robbed' /\ k = asked'[l] /\ n = Answers(l)'
    BY <1>0 DEF CountsOK
  <2>6. 0 <= r + k + n
    BY <2>5
  <2> QED BY <1>3, <2>4, <2>5, <2>6 DEF Met
<1> QED BY <1>1, <1>10, <1>11, <1>12 DEF Connects, Refused

(* A timeout while nothing is on its way: what was claimed was taken, in   *)
(* each of the passes of the attempt, and it probes again or gives up.     *)
LEMMA TimeoutMet ==
    ASSUME TypeInv, TypeInv', PhaseInv, NEW i \in Attempts, Timeout(i),
           late' = 0, NEW l \in up, Met(l)
    PROVE  Met(l)' /\ (For(i, l)' => For(i, l) /\ Robbed(i, l)')
<1> DEFINE a == attempt[i]
           b == attempt'[i]
<1>0. /\ TypeOK /\ AttemptsOK /\ AttemptsOK' /\ inbox \in Seq(Datagram)
      /\ up \subseteq Servers /\ asked \in [Servers -> Nat] /\ l \in Servers
      /\ CountsOK(l) /\ CountsOK(l)' /\ robbed \in Nat /\ late \in Nat
  BY TypeParts, CountsType DEF TypeInv, ServersOK, BoundsOK, TypeOK, AttemptsOK
<1>1. /\ a.phase \in {"probe", "check"} /\ Going(a)
      /\ \A j \in Attempts \ {i} : attempt'[j] = attempt[j]
      /\ b = NextTry(a) /\ GoOn(i, b)
  BY <1>0, TimedOut
<1>2. /\ inbox = <<>> /\ asked[l] = 0
      /\ inbox' = inbox /\ robbed' = robbed
  <2>1. late' # late + 1
    BY <1>0
  <2> QED BY <1>0, <2>1 DEF Timeout
<1>3. Answers(l) = 0 /\ Answers(l)' = 0
  BY <1>2, CountNone DEF Answers, AnswersOf
<1>4. asked'[l] = asked[l] + (IF Asks(b, l) THEN 1 ELSE 0)
  <2>1. PICK c : c = b
    OBVIOUS
  <2>2. GoOn(i, c)
    BY <1>1, <2>1
  <2> QED BY <1>0, <2>1, <2>2, ProbeSent
<1>5. b.dest_ports = a.dest_ports /\ b.phase # "idle"
  <2>1. PICK c : c = a
    OBVIOUS
  <2> QED BY <1>1, <2>1, NextTryType
<1>6. For(i, l)' <=> For(i, l)
  BY <1>1, <1>5 DEF For, Begun, Port
<1>7. CASE ~For(i, l)
  <2> DEFINE dropped == IF Asks(a, l) /\ ~Asks(b, l) THEN 1 ELSE 0
             added == IF ~Asks(a, l) /\ Asks(b, l) THEN 1 ELSE 0
             probed == IF Asks(b, l) THEN 1 ELSE 0
  <2>1. /\ dropped \in {0, 1} /\ added \in {0, 1} /\ probed \in {0, 1}
        /\ 0 \in {0, 1} /\ added = 1 => probed = 1
    OBVIOUS
  <2>2. Cardinality(Claims(l)') + dropped <= Cardinality(Claims(l)) + added
    BY <1>0, <1>1, <1>6, <1>7, OtherClaims
  <2>3. asked'[l] = asked[l] + probed
    BY <1>4
  <2> HIDE DEF dropped, added, probed
  <2>4. /\ added + 0 <= dropped + 0 + probed /\ robbed' = robbed + 0
        /\ Answers(l) <= Answers(l)' + 0
    BY <1>0, <1>2, <1>3, <2>1
  <2>5. Met(l)'
    BY <1>0, <2>1, <2>2, <2>3, <2>4, MetNext
  <2> QED BY <1>6, <1>7, <2>5
<1>8. CASE For(i, l)
  <2>1. /\ i \in Begun /\ i # 0 /\ a.dest_ports[1] = l /\ Len(a.dest_ports) = 1
        /\ a.at = 1
    <3>1. i \in Begun /\ a.dest_ports[1] = l
      BY <1>8 DEF For, Port
    <3>2. Len(a.dest_ports) = 1
      BY <3>1 DEF PhaseInv, OnePort
    <3>3. a.at \in 1 .. Len(a.dest_ports)
      BY <1>1, AttemptType
    <3>4. i # 0
      BY <3>1, AttemptsFacts DEF Begun
    <3> QED BY <3>1, <3>2, <3>3, <3>4
  <2>2. Unheard(a)
    BY <1>1 DEF Unheard
  <2>3. PICK n \in Nat : n = a.pass /\ n >= 1
    <3>1. a.pass \in 1 .. MaxPasses /\ MaxPasses \in Nat
      BY <1>0, OwnClaims, ReconnectionAssumption
    <3>2. PICK n \in 1 .. MaxPasses : n = a.pass
      BY <3>1
    <3> QED BY <3>1, <3>2
  <2>4. ClaimsOf(i, l) = 1 .. n
    BY <1>8, <2>2, <2>3 DEF ClaimsOf
  <2>5. ClaimsOf(i, l)' = 1 .. (IF Unheard(b) THEN b.pass ELSE b.pass - 1)
    BY <1>6, <1>8 DEF ClaimsOf, Unheard
  <2>6. \A j \in Attempts \ {i} : ClaimsOf(j, l)' = ClaimsOf(j, l)
    BY <1>1, OthersClaims
  <2>7. a.pass <= Cardinality(Claims(l))
    BY <1>0, <1>8, <2>2, ClaimsForPasses
  <2>8. PICK r \in Nat : r = robbed' /\ r = robbed /\ n <= r
    <3>1. PICK c, r \in Nat : c = Cardinality(Claims(l)) /\ r = robbed
      BY <1>0 DEF CountsOK
    <3>2. c <= r + 0 + 0
      BY <1>2, <1>3, <3>1 DEF Met
    <3> QED BY <1>2, <2>3, <2>7, <3>1, <3>2
  <2>9. /\ Answers(l) <= Answers(l)' + 0 /\ robbed' = robbed + 0
        /\ 0 \in {0, 1} /\ 1 \in {0, 1}
        /\ 1 + 0 <= 0 + 0 + 1 /\ 0 + 0 <= 0 + 0 + 0
    BY <1>3, <2>8
  <2> HIDE DEF a, b
  <2>10. CASE b.phase = "probe" /\ b.at = 1 /\ b.pass = a.pass + 1
    <3>1. Unheard(b) /\ Asks(b, l) /\ ~Lost(b, l)
      BY <1>5, <2>1, <2>10 DEF Unheard, Asks, Target, Lost
    <3>2. b.pass = n + 1
      BY <2>3, <2>10
    <3>3. ClaimsOf(i, l)' \subseteq ClaimsOf(i, l) \cup {n + 1}
      BY <2>3, <2>4, <2>5, <3>1, <3>2
    <3>4. Cardinality(Claims(l)') <= Cardinality(Claims(l)) + 1
      BY <2>6, <3>3, OneMoreClaim
    <3>5. asked'[l] = asked[l] + 1
      BY <1>4, <3>1
    <3>6. Met(l)'
      <4>1. Cardinality(Claims(l)') + 0 <= Cardinality(Claims(l)) + 1
        BY <1>0, <3>4 DEF CountsOK
      <4> QED BY <1>0, <2>9, <3>5, <4>1, MetNext
    <3>7. Robbed(i, l)'
      <4>1. n + 1 <= r + 1
        BY <2>3, <2>8
      <4>2. b.pass <= robbed' + 1
        BY <2>8, <3>2, <4>1
      <4> QED BY <3>1, <4>2 DEF Robbed, Lost, b
    <3> QED BY <1>8, <3>6, <3>7
  <2>11. CASE b.phase = "gave up" /\ b.pass = a.pass
    <3>1. Unheard(b) /\ ~Asks(b, l)
      BY <2>11 DEF Unheard, Asks
    <3>2. ClaimsOf(i, l)' \subseteq ClaimsOf(i, l)
      BY <2>3, <2>4, <2>5, <2>11, <3>1
    <3>3. Cardinality(Claims(l)') <= Cardinality(Claims(l))
      BY <2>6, <3>2, NoMoreClaims
    <3>4. asked'[l] = asked[l] + 0
      BY <1>4, <3>1
    <3>5. Met(l)'
      <4>1. Cardinality(Claims(l)') + 0 <= Cardinality(Claims(l)) + 0
        BY <1>0, <3>3 DEF CountsOK
      <4> QED BY <1>0, <2>9, <3>4, <4>1, MetNext
    <3>6. Robbed(i, l)'
      <4>1. n <= r /\ n <= r + 1
        BY <2>3, <2>8
      <4>2. b.pass <= robbed' /\ b.pass <= robbed' + 1
        BY <2>3, <2>8, <2>11, <4>1
      <4> QED BY <4>2 DEF Robbed, b
    <3> QED BY <1>8, <3>5, <3>6
  <2>12. /\ ~(a.at < Len(a.dest_ports))
         /\ Going(a)
    BY <1>1, <2>1 DEF a
  <2> QED BY <1>1, <2>10, <2>11, <2>12, NextTryType
<1> QED BY <1>7, <1>8

----------------------------------------------------------------------------
(* The other steps.                                                        *)

(* An attempt that does not take part was robbed as often as before.       *)
LEMMA StillRobbed ==
    ASSUME AttemptsOK, NEW l, NEW k \in Attempts, attempt'[k] = attempt[k],
           For(k, l) => Robbed(k, l), robbed \in Nat, robbed' \in {robbed, robbed + 1}
    PROVE  For(k, l)' => Robbed(k, l)'
<1>1. For(k, l)' = For(k, l)
  BY OthersClaims
<1>2. PICK n, r, q \in Nat : n = attempt[k].pass /\ r = robbed /\ q = robbed'
  <2>1. attempt[k].pass \in 1 .. MaxPasses /\ MaxPasses \in Nat
    BY OwnClaims, ReconnectionAssumption
  <2>2. attempt[k].pass \in Nat /\ robbed' \in Nat
    BY <2>1
  <2> QED BY <2>2
<1>3. r <= q
  BY <1>2
<1>4. CASE Lost(attempt[k], l) /\ For(k, l)
  <2>1. n <= r
    BY <1>2, <1>4 DEF Robbed
  <2>2. n <= q /\ n <= q + 1
    BY <1>2, <1>3, <2>1
  <2> QED BY <1>2, <2>2 DEF Robbed
<1>5. CASE ~Lost(attempt[k], l) /\ For(k, l)
  <2>1. n <= r + 1
    BY <1>2, <1>5 DEF Robbed
  <2>2. n <= q + 1 /\ ~Lost(attempt'[k], l)
    BY <1>2, <1>3, <1>5, <2>1
  <2> QED BY <1>2, <2>2 DEF Robbed, Lost
<1> QED BY <1>1, <1>4, <1>5

(* The claims are met if there are no more of them, and as many probes and *)
(* answers.                                                                *)
LEMMA StillMet ==
    ASSUME NEW l, Met(l), CountsOK(l), CountsOK(l)',
           \A j \in Attempts : ClaimsOf(j, l)' \subseteq ClaimsOf(j, l),
           robbed' = robbed, asked'[l] = asked[l], Answers(l)' = Answers(l)
    PROVE  Met(l)'
<1>1. Claims(l)' \subseteq Claims(l)
  BY DEF Claims
<1>2. Cardinality(Claims(l)') <= Cardinality(Claims(l))
  BY <1>1, ClaimsType, Fewer
<1>3. PICK c, r, k, n, d \in Nat :
         /\ c = Cardinality(Claims(l)) /\ r = robbed /\ k = asked[l]
         /\ n = Answers(l) /\ d = Cardinality(Claims(l)')
  BY DEF CountsOK
<1>4. c <= r + k + n
  BY <1>3 DEF Met
<1>5. d <= c
  BY <1>2, <1>3
<1>6. d <= r + k + n
  BY <1>4, <1>5
<1> QED BY <1>3, <1>6 DEF Met

(* The connection of an attempt is set up, which nobody claims anything for.*)
LEMMA SetupMet ==
    ASSUME TypeInv, TypeInv', PhaseInv, NEW i \in Attempts,
           SetupReconnection(i) \/ (Start /\ i = 0), NEW l \in up, Met(l),
           NEW k \in Attempts, For(k, l) => Robbed(k, l)
    PROVE  Met(l)' /\ (For(k, l)' => Robbed(k, l)')
<1>0. /\ TypeOK /\ AttemptsOK /\ inbox \in Seq(Datagram)
      /\ up \subseteq Servers /\ CountsOK(l) /\ CountsOK(l)' /\ robbed \in Nat
      /\ attempt[0].phase # "idle"
  BY TypeParts, CountsType DEF TypeInv, ServersOK, BoundsOK, TypeOK, AttemptsOK
<1>1. /\ attempt[i].phase # "idle" /\ inbox' = inbox /\ robbed' = robbed
      /\ asked' = asked /\ attempt' = [attempt EXCEPT ![i].phase = "done"]
      /\ attempt[i].phase \notin {"probe", "check"}
      /\ i # 0 => attempt[i].phase = "setup"
  <2>1. CASE SetupReconnection(i)
    BY <2>1 DEF SetupReconnection, bounds
  <2>2. CASE Start /\ i = 0
    BY <1>0, <2>2 DEF Start, bounds, PhaseInv, StartPhase, Awaits
  <2> QED BY <2>1, <2>2
<1>2. /\ \A j \in Attempts \ {i} : attempt'[j] = attempt[j]
      /\ attempt'[i].dest_ports = attempt[i].dest_ports
      /\ attempt'[i].phase = "done" /\ attempt'[i].pass = attempt[i].pass
  BY <1>0, <1>1, OnePhase DEF Phases
<1>3. For(i, l)' = For(i, l) /\ (For(i, l) => attempt[i].phase = "setup")
  BY <1>1, <1>2, AttemptsFacts DEF For, Begun, Port
<1>4. ClaimsOf(i, l)' = ClaimsOf(i, l)
  BY <1>1, <1>2, <1>3 DEF ClaimsOf, Unheard, Asks
<1>5. \A j \in Attempts \ {i} : ClaimsOf(j, l)' = ClaimsOf(j, l)
  BY <1>2, OthersClaims
<1>6. Answers(l)' = Answers(l)
  BY <1>1 DEF Answers, AnswersOf
<1>7. Met(l)'
  BY <1>0, <1>1, <1>4, <1>5, <1>6, StillMet
<1>8. CASE k # i
  BY <1>0, <1>1, <1>2, <1>7, <1>8, StillRobbed
<1>9. CASE k = i
  BY <1>1, <1>2, <1>3, <1>7, <1>9 DEF Robbed, Lost
<1> QED BY <1>8, <1>9

(* An attempt is begun for the sender of a mandate: with its first probe it*)
(* claims the first answer.                                                *)
LEMMA ReconnectMet ==
    ASSUME TypeInv, TypeInv', PhaseInv, ReconnectToNewPedidosRust,
           NEW l \in up, Met(l),
           NEW k \in Attempts, For(k, l) => Robbed(k, l)
    PROVE  Met(l)' /\ (For(k, l)' => Robbed(k, l)')
<1>0. /\ TypeOK /\ AttemptsOK /\ inbox \in Seq(Datagram)
      /\ up \subseteq Servers /\ asked \in [Servers -> Nat]
      /\ CountsOK(l) /\ CountsOK(l)' /\ robbed \in Nat
  BY TypeParts, CountsType DEF TypeInv, ServersOK, BoundsOK, TypeOK, AttemptsOK
<1>1. PICK b, n : b = Fresh(<<First.from>>) /\ n = NextIdle
  OBVIOUS
<1>2. /\ inbox # <<>> /\ First \in Datagram /\ Mandated /\ inbox' = Tail(inbox)
      /\ GoOn(n, b) /\ b.phase = "probe" /\ b.dest_ports = <<First.from>>
      /\ b.at = 1 /\ b.pass = 1 /\ robbed' = robbed
      /\ \A j \in Attempts : attempt'[j] = IF j = n THEN b ELSE attempt[j]
      /\ n \in Mandates /\ attempt[n].phase = "idle"
  <2>1. robbed' = robbed
    BY DEF ReconnectToNewPedidosRust, bounds
  <2>2. /\ inbox # <<>> /\ First \in Datagram /\ Mandated /\ inbox' = Tail(inbox)
        /\ GoOn(NextIdle, Fresh(<<First.from>>))
    BY <1>0, Reconnecting
  <2>3. /\ Fresh(<<First.from>>).phase = "probe"
        /\ Fresh(<<First.from>>).dest_ports = <<First.from>>
        /\ Fresh(<<First.from>>).at = 1 /\ Fresh(<<First.from>>).pass = 1
    BY <1>0, Reconnecting
  <2>4. \A j \in Attempts :
           attempt'[j] = IF j = NextIdle THEN Fresh(<<First.from>>) ELSE attempt[j]
    BY <1>0, Reconnecting
  <2>5. NextIdle \in Mandates /\ attempt[NextIdle].phase = "idle"
    BY <2>2, NextIdleIs
  <2> QED BY <1>1, <2>1, <2>2, <2>3, <2>4, <2>5
<1>3. n \in Attempts /\ attempt'[n] = b
  BY <1>2, AttemptsFacts
<1>4. /\ ~For(n, l) /\ ClaimsOf(n, l) = {}
      /\ Target(b) = First.from
      /\ For(n, l)' <=> First.from = l
      /\ Asks(b, l) <=> First.from = l
  BY <1>2, <1>3 DEF For, Begun, ClaimsOf, Asks, Target, Port
<1>5. ClaimsOf(n, l)' = IF First.from = l THEN 1 .. 1 ELSE {}
  BY <1>2, <1>3, <1>4 DEF ClaimsOf, Unheard, Asks
<1>6. \A j \in Attempts \ {n} : attempt'[j] = attempt[j] /\ ClaimsOf(j, l)' = ClaimsOf(j, l)
  BY <1>2, OthersClaims
<1>7. Answers(l) = Answers(l)' + 0 /\ robbed' = robbed + 0
  BY <1>0, <1>2, AnswersOne
<1>8. asked'[l] = asked[l] + (IF Asks(b, l) THEN 1 ELSE 0)
  BY <1>0, <1>2, ProbeSent
<1>9. Met(l)'
  <2>1. /\ Answers(l) <= Answers(l)' + 0 /\ 0 \in {0, 1} /\ 1 \in {0, 1}
        /\ 1 + 0 <= 0 + 0 + 1 /\ 0 + 0 <= 0 + 0 + 0
    BY <1>0, <1>7 DEF CountsOK
  <2>2. CASE First.from = l
    <3>1. ClaimsOf(n, l)' \subseteq ClaimsOf(n, l) \cup {1}
      BY <1>5, <2>2
    <3>2. Cardinality(Claims(l)') <= Cardinality(Claims(l)) + 1
      BY <1>3, <1>6, <3>1, OneMoreClaim
    <3>3. Cardinality(Claims(l)') + 0 <= Cardinality(Claims(l)) + 1
      BY <1>0, <3>2 DEF CountsOK
    <3>4. asked'[l] = asked[l] + 1
      BY <1>4, <1>8, <2>2
    <3> QED BY <1>0, <1>7, <2>1, <3>3, <3>4, MetNext
  <2>3. CASE First.from # l
    <3>1. ClaimsOf(n, l)' \subseteq ClaimsOf(n, l)
      BY <1>5, <2>3
    <3>2. Cardinality(Claims(l)') <= Cardinality(Claims(l))
      BY <1>3, <1>6, <3>1, NoMoreClaims
    <3>3. Cardinality(Claims(l)') + 0 <= Cardinality(Claims(l)) + 0
      BY <1>0, <3>2 DEF CountsOK
    <3>4. asked'[l] = asked[l] + 0
      BY <1>4, <1>8, <2>3
    <3> QED BY <1>0, <1>7, <2>1, <3>3, <3>4, MetNext
  <2> QED BY <2>2, <2>3
<1>10. CASE k # n
  BY <1>0, <1>2, <1>6, <1>9, <1>10, StillRobbed
<1>11. CASE k = n
  <2>1. 1 <= robbed + 1
    BY <1>0
  <2> QED BY <1>2, <1>3, <1>9, <1>11, <2>1 DEF Robbed, Lost
<1> QED BY <1>10, <1>11

(* What changes neither the attempts nor what was taken of their answers.  *)
LEMMA NetworkMet ==
    ASSUME TypeInv, TypeInv', PhaseInv, NEW l \in up, Met(l),
           attempt' = attempt, robbed' = robbed,
           \/ asked'[l] = asked[l] /\ Answers(l)' = Answers(l)
           \/ /\ asked[l] > 0 /\ asked'[l] = asked[l] - 1
              /\ Answers(l)' = Answers(l) + 1 \/ client \notin {"starting", "running"},
           NEW k \in Attempts, For(k, l) => Robbed(k, l)
    PROVE  Met(l)' /\ (For(k, l)' => Robbed(k, l)')
<1>0. /\ TypeOK /\ AttemptsOK /\ up \subseteq Servers
      /\ CountsOK(l) /\ CountsOK(l)' /\ robbed \in Nat
  BY TypeParts, CountsType DEF TypeInv, ServersOK, BoundsOK, TypeOK, AttemptsOK
<1>1. \A j \in Attempts : ClaimsOf(j, l)' = ClaimsOf(j, l)
  BY OthersClaims
<1>2. For(k, l)' => Robbed(k, l)'
  BY <1>0, StillRobbed
<1>3. PICK c, r, a, n \in Nat : /\ c = Cardinality(Claims(l)) /\ r = robbed
                                /\ a = asked[l] /\ n = Answers(l)
  BY <1>0 DEF CountsOK
<1>4. PICK a2, n2 \in Nat : a2 = asked'[l] /\ n2 = Answers(l)'
  BY <1>0 DEF CountsOK
<1>5. Claims(l)' = Claims(l)
  BY <1>1 DEF Claims
<1>6. c <= r + a + n
  BY <1>3 DEF Met
<1>7. CASE asked'[l] = asked[l] /\ Answers(l)' = Answers(l)
  BY <1>0, <1>1, <1>2, <1>7, StillMet
<1>8. CASE a2 = a - 1 /\ n2 = n + 1
  <2>1. c <= r + a2 + n2
    BY <1>6, <1>8
  <2> QED BY <1>2, <1>3, <1>4, <1>5, <2>1 DEF Met
<1>9. CASE client \notin {"starting", "running"}
  <2>1. Cardinality(Claims(l)') = 0
    BY <1>5, <1>9, UnboundClaimsNothing, FS_EmptySet
  <2>2. 0 <= r + a2 + n2
    BY <1>3, <1>4
  <2> QED BY <1>2, <1>3, <1>4, <2>1, <2>2 DEF Met
<1> QED BY <1>3, <1>4, <1>7, <1>8, <1>9

(* The gateway takes an answer from an attempt.                            *)
LEMMA UnrecognizedMet ==
    ASSUME TypeInv, TypeInv', Unrecognized, NEW l \in up, Met(l),
           NEW k \in Attempts, For(k, l) => Robbed(k, l)
    PROVE  Met(l)' /\ (For(k, l)' => Robbed(k, l)')
<1>0. /\ AttemptsOK /\ up \subseteq Servers /\ inbox \in Seq(Datagram)
      /\ CountsOK(l) /\ CountsOK(l)' /\ robbed \in Nat
  BY TypeParts, CountsType DEF TypeInv, ServersOK, BoundsOK, TypeOK, AttemptsOK
<1>1. /\ inbox # <<>> /\ inbox' = Tail(inbox) /\ robbed' = robbed + 1
      /\ attempt' = attempt /\ asked' = asked
  BY DEF Unrecognized
<1>2. \A j \in Attempts : ClaimsOf(j, l)' = ClaimsOf(j, l)
  BY <1>1, OthersClaims
<1>3. Claims(l)' = Claims(l)
  BY <1>2 DEF Claims
<1>4. PICK e \in {0, 1} : Answers(l) = Answers(l)' + e
  BY <1>0, <1>1, AnswersOne
<1>5. /\ Cardinality(Claims(l)') + 0 <= Cardinality(Claims(l)) + 0
      /\ Answers(l) <= Answers(l)' + e /\ asked'[l] = asked[l] + 0
      /\ 0 \in {0, 1} /\ 1 \in {0, 1} /\ 0 + e <= 0 + 1 + 0
  BY <1>0, <1>1, <1>3, <1>4 DEF CountsOK
<1>6. Met(l)'
  BY <1>0, <1>1, <1>4, <1>5, MetNext
<1> QED BY <1>0, <1>1, <1>6, StillRobbed

----------------------------------------------------------------------------
(* Nobody is late before a step that leaves nobody late.                   *)
LEMMA LateBefore ==
    ASSUME TypeInv, [Next]_vars, late' = 0
    PROVE  late = 0
<1>1. late \in Nat
  BY TypeParts DEF TypeInv, BoundsOK
<1>2. ASSUME NEW i \in Attempts, Timeout(i) PROVE late = 0
  <2>1. late' = late \/ late' = late + 1
    BY <1>2 DEF Timeout
  <2> QED BY <1>1, <2>1
<1>3. ASSUME ~\E i \in Attempts : Timeout(i) PROVE late' = late
  BY <1>3 DEF Next, vars, bounds, try_connection, SetupReconnection, Start,
     ReconnectToNewPedidosRust, Unrecognized, Server, send_connection_answer,
     TakeOver, GotLeader, ElectedAgain, Crash, Restart
<1> QED BY <1>2, <1>3

(* Only the first server of the configuration is asked, by the attempt 0.  *)
LEMMA RobInit == Init => RobInv
<1> SUFFICES ASSUME Init, NEW l \in up
             PROVE  Met(l) /\ \A i \in Attempts : ~For(i, l)
  BY DEF RobInv, Fair
<1> DEFINE first == Fresh(Configuration)
<1>1. /\ up = Servers /\ inbox = <<>> /\ robbed = 0
      /\ attempt = [i \in Attempts |-> IF i = 0 THEN first ELSE Idle]
      /\ asked = [s \in Servers |-> IF s = Head(Configuration) THEN 1 ELSE 0]
  BY DEF Init
<1>2. /\ first.phase = "probe" /\ first.dest_ports = Configuration
      /\ first.at = 1 /\ Head(Configuration) = Configuration[1]
  BY Configured, FreshType
<1> HIDE DEF first
<1>3. /\ \A i \in Mandates : attempt[i].phase = "idle"
      /\ attempt[0] = first
  BY <1>1, IdleType, AttemptsFacts
<1>4. \A i \in Attempts : ~For(i, l)
  BY <1>3 DEF For, Begun
<1>5. /\ \A i \in Mandates : ClaimsOf(i, l) = {}
      /\ ClaimsOf(0, l) = IF Configuration[1] = l THEN {0} ELSE {}
  BY <1>2, <1>3, <1>4, AttemptsFacts DEF ClaimsOf, Asks, Target
<1>6. Answers(l) = 0
  BY <1>1, CountNone DEF Answers
<1>7. CASE Configuration[1] = l
  <2>1. Claims(l) \subseteq {<<0, 0>>}
    <3>1. ASSUME NEW i \in Attempts, NEW p, p \in ClaimsOf(i, l) PROVE i = 0 /\ p = 0
      BY <1>5, <1>7, <3>1, AttemptsFacts
    <3>2. \A c \in Claims(l) : c = <<0, 0>>
      BY <3>1 DEF Claims
    <3> QED BY <3>2
  <2>2. IsFiniteSet({<<0, 0>>}) /\ Cardinality({<<0, 0>>}) = 1
    BY FS_Singleton
  <2>3. Cardinality(Claims(l)) <= 1
    BY <2>1, <2>2, Fewer
  <2>4. asked[l] = 1
    BY <1>1, <1>2, <1>7
  <2> QED BY <1>1, <1>4, <1>6, <2>3, <2>4 DEF Met
<1>8. CASE Configuration[1] # l
  <2>1. Claims(l) = {}
    BY <1>5, <1>8, AttemptsFacts DEF Claims
  <2>2. Cardinality(Claims(l)) = 0
    BY <2>1, FS_EmptySet
  <2>3. asked[l] = 0
    BY <1>1, <1>2, <1>8
  <2> QED BY <1>1, <1>4, <1>6, <2>2, <2>3 DEF Met
<1> QED BY <1>7, <1>8

(* Every step keeps every claim met, and every pass that was lost paid for.*)
LEMMA RobStep ==
    TypeInv /\ LeadInv /\ TrueInv /\ PhaseInv /\ OrderInv /\ RobInv
    /\ TypeInv' /\ [Next]_vars
        => RobInv'
<1> SUFFICES ASSUME TypeInv, LeadInv, TrueInv, PhaseInv, OrderInv, RobInv,
                    TypeInv', [Next]_vars, restarts' = 0, late' = 0
             PROVE  \A l \in up' : Fair(l)'
  BY DEF RobInv
<1> SUFFICES ASSUME NEW l \in up', NEW k \in Attempts
             PROVE  Met(l)' /\ (For(k, l)' => Robbed(k, l)')
  BY AttemptsFacts DEF Fair
<1>0. /\ TypeOK /\ AttemptsOK /\ inbox \in Seq(Datagram) /\ robbed \in Nat
      /\ up \subseteq Servers
      /\ leader \in [Servers -> Servers \cup {None}]
      /\ asked \in [Servers -> Nat]
  BY TypeParts DEF TypeInv, ServersOK, BoundsOK
<1>b. /\ restarts = 0 /\ late = 0 /\ l \in up /\ Addressed
  BY LastingStays, LateBefore DEF OrderInv
<1>c. Met(l) /\ (For(k, l) => Robbed(k, l))
  BY <1>b DEF RobInv, Fair
<1> DEFINE Goal == Met(l)' /\ (For(k, l)' => Robbed(k, l)')
<1>1. ASSUME NEW i \in Attempts, try_connection(i) PROVE Goal
  <2>1. /\ \A j \in Attempts \ {i} : attempt'[j] = attempt[j]
        /\ robbed' \in {robbed, robbed + 1}
    BY <1>0, <1>1, TryConnection
  <2>2. CASE For(i, l)
    <3>1. \A m \in Attempts : For(m, l) => Robbed(m, l)
      BY <1>b DEF RobInv, Fair
    <3>2. Met(l)' /\ Robbed(i, l)'
      BY <1>1, <1>b, <1>c, <2>2, <3>1, TryOwn
    <3>3. CASE k # i
      BY <1>0, <1>c, <2>1, <3>2, <3>3, StillRobbed
    <3> QED BY <3>2, <3>3
  <2>3. CASE ~For(i, l)
    <3>1. Met(l)' /\ ~For(i, l)'
      BY <1>1, <1>b, <1>c, <2>3, TryOther
    <3>2. CASE k # i
      BY <1>0, <1>c, <2>1, <3>1, <3>2, StillRobbed
    <3> QED BY <3>1, <3>2
  <2> QED BY <2>2, <2>3
<1>2. ASSUME NEW i \in Attempts, Timeout(i) PROVE Goal
  <2>1. Met(l)' /\ (For(i, l)' => For(i, l) /\ Robbed(i, l)')
    BY <1>2, <1>b, <1>c, TimeoutMet
  <2>2. \A j \in Attempts \ {i} : attempt'[j] = attempt[j]
    BY <1>0, <1>2, TimedOut
  <2>3. robbed' = robbed
    BY <1>2 DEF Timeout
  <2>4. CASE k # i
    BY <1>0, <1>c, <2>1, <2>2, <2>3, <2>4, StillRobbed
  <2> QED BY <2>1, <2>4
<1>3. ASSUME NEW i \in Attempts, SetupReconnection(i) PROVE Goal
  BY <1>3, <1>b, <1>c, SetupMet
<1>4. CASE Start
  <2>1. PICK i \in Attempts : i = 0
    BY AttemptsFacts
  <2> QED BY <1>4, <1>b, <1>c, <2>1, SetupMet
<1>5. CASE ReconnectToNewPedidosRust
  BY <1>5, <1>b, <1>c, ReconnectMet
<1>6. CASE Unrecognized
  BY <1>6, <1>b, <1>c, UnrecognizedMet
<1>7. ASSUME NEW s \in Servers, send_connection_answer(s) PROVE Goal
  <2>1. /\ s \in up /\ asked[s] > 0 /\ asked' = [asked EXCEPT ![s] = @ - 1]
        /\ inbox' = Delivered(AnswerOf(s)) /\ attempt' = attempt
        /\ robbed' = robbed
    BY <1>7 DEF send_connection_answer, bounds
  <2>2. PICK m : m = AnswerOf(s)
    OBVIOUS
  <2>3. /\ m \in Datagram /\ m.from = s /\ m.type # "ReconnectionMandate"
        /\ inbox' = Delivered(m)
    BY <1>0, <2>1, <2>2, AnswerType
  <2>4. m \in AnswersOf(l) <=> s = l
    BY <2>3 DEF AnswersOf
  <2>5. /\ Answers(l)' = Answers(l)
                + (IF inbox' # inbox /\ m \in AnswersOf(l) THEN 1 ELSE 0)
        /\ inbox' # inbox <=> client \in {"starting", "running"}
        /\ Answers(l) \in Nat
    BY <1>0, <2>3, AnswersMore, CountType DEF Answers
  <2>6. CASE s = l
    <3>1. asked[l] > 0 /\ asked'[l] = asked[l] - 1
      BY <1>0, <2>1, <2>6
    <3>2. Answers(l)' = Answers(l) + 1 \/ client \notin {"starting", "running"}
      BY <2>4, <2>5, <2>6
    <3> QED BY <1>b, <1>c, <2>1, <3>1, <3>2, NetworkMet
  <2>7. CASE s # l
    <3>1. asked'[l] = asked[l] /\ Answers(l)' = Answers(l)
      BY <1>0, <2>1, <2>4, <2>5, <2>7
    <3> QED BY <1>b, <1>c, <2>1, <3>1, NetworkMet
  <2> QED BY <2>6, <2>7
<1>8. ASSUME attempt' = attempt, robbed' = robbed, asked'[l] = asked[l],
             Answers(l)' = Answers(l)
      PROVE  Goal
  BY <1>8, <1>b, <1>c, NetworkMet
<1>9. ASSUME inbox' = inbox PROVE Answers(l)' = Answers(l)
  BY <1>9 DEF Answers, AnswersOf
<1>10. ASSUME NEW s \in Servers, TakeOver(s) \/ ElectedAgain(s) PROVE Goal
  <2>1. /\ inbox' = inbox \/ inbox' = Delivered(Mandate(s))
        /\ attempt' = attempt /\ robbed' = robbed /\ asked' = asked
    BY <1>10 DEF TakeOver, ElectedAgain, NotifyAllClientsIAmLeader, Mandate
  <2>2. PICK m : m = Mandate(s)
    OBVIOUS
  <2>3. m \in Datagram /\ m \notin AnswersOf(l)
    BY <2>2 DEF Mandate, Datagram, AnswersOf
  <2>4. CASE inbox' = Delivered(m)
    <3>1. Answers(l)' = Answers(l)
                + (IF inbox' # inbox /\ m \in AnswersOf(l) THEN 1 ELSE 0)
      BY <1>0, <2>3, <2>4, AnswersMore
    <3>2. Answers(l) \in Nat
      BY <1>0, CountType DEF Answers
    <3>3. Answers(l)' = Answers(l)
      BY <2>3, <3>1, <3>2
    <3> QED BY <1>8, <2>1, <3>3
  <2> QED BY <1>8, <1>9, <2>1, <2>2, <2>4
<1>11. ASSUME NEW s \in Servers, Crash(s) PROVE Goal
  <2>1. /\ attempt' = attempt /\ robbed' = robbed /\ inbox' = inbox
        /\ up' = up \ {s} /\ asked' = [asked EXCEPT ![s] = 0]
    BY <1>11 DEF Crash
  <2>2. asked'[l] = asked[l]
    BY <1>0, <2>1
  <2> QED BY <1>8, <1>9, <2>1, <2>2
<1>12. ASSUME UNCHANGED <<inbox, attempt, robbed, asked>> PROVE Goal
  BY <1>8, <1>9, <1>12
<1>13. ASSUME NEW s \in Servers, Restart(s) \/ \E t \in Servers : GotLeader(s, t)
       PROVE  Goal
  BY <1>12, <1>13 DEF Restart, GotLeader, bounds
<1>14. CASE UNCHANGED vars
  BY <1>12, <1>14 DEF vars, bounds
<1> QED BY <1>1, <1>2, <1>3, <1>4, <1>5, <1>6, <1>7, <1>10, <1>11, <1>13,
           <1>14 DEF Next, Server

(* An attempt to connect to a new leader that lives gives up, in its last  *)
(* pass, only when as many answers were taken as there are passes, by the  *)
(* gateway or by other attempts, or mandates were taken for them           *)
(* (TcpConnector and UdpGateway, which read the same socket).              *)
THEOREM GivesUpOnlyRobbed == Spec => []GivesUpOnlyWhenRobbed
<1> DEFINE IInv == TypeInv /\ LeadInv /\ TrueInv /\ PhaseInv /\ OrderInv /\ RobInv
<1>1. Init => IInv
  BY InitType, LeadInit, TrueInit, PhaseInit, OrderInit, RobInit
<1>2. IInv /\ [Next]_vars => IInv'
  BY TypeStep, LeadStep, TrueStep, PhaseStep, OrderStep, RobStep
<1>3. IInv => GivesUpOnlyWhenRobbed
  <2>0. ASSUME NEW s \in Seq(Servers), Len(s) = 1 PROVE s[1] \in Range(s)
    BY <2>0 DEF Range
  <2> SUFFICES ASSUME IInv, NEW i \in Mandates, attempt[i].phase = "gave up",
                      Range(attempt[i].dest_ports) \subseteq up,
                      late = 0, restarts = 0
               PROVE  robbed >= MaxPasses
    BY DEF GivesUpOnlyWhenRobbed
  <2>1. PICK l : l = attempt[i].dest_ports[1]
    OBVIOUS
  <2>2. i \in Begun /\ i \in Attempts
    BY AttemptsFacts DEF Begun
  <2>3. l \in up
    <3>1. AttemptsOK /\ attempt[i] \in Attempt
      BY <2>2, TypeParts DEF TypeInv, AttemptsOK
    <3>2. Len(attempt[i].dest_ports) = 1
      BY <2>2 DEF PhaseInv, OnePort
    <3>3. attempt[i].dest_ports \in Seq(Servers)
      BY <3>1, AttemptPorts
    <3> QED BY <2>0, <2>1, <3>2, <3>3
  <2>4. attempt[i].pass <= robbed /\ attempt[i].pass = MaxPasses
    BY <2>1, <2>2, <2>3 DEF RobInv, Fair, For, Port, Robbed, Lost, PhaseInv, LastPass
  <2>5. robbed \in Nat /\ MaxPasses \in Nat
    BY TypeParts, ReconnectionAssumption DEF TypeInv, BoundsOK
  <2>6. PICK r, n \in Nat : r = robbed /\ n = MaxPasses
    BY <2>5
  <2>7. n <= r
    BY <2>4, <2>6
  <2> QED BY <2>6, <2>7
<1> QED BY <1>1, <1>2, <1>3, PTL DEF Spec
=============================================================================
