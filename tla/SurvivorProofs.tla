---------------------------- MODULE SurvivorProofs ----------------------------
(***************************************************************************)
(* Theorems about DataRing once its leader has died: the survivors end with*)
(* the same tables, unless one of them took over in haste.                 *)
(***************************************************************************)
EXTENDS DataRingProofs

----------------------------------------------------------------------------
(* The tables, entry by entry.                                             *)

(* What the servers should agree on has an entry for each of these.        *)
Keys == [kind : {"customer", "order"}, of : Customers]
        \cup [kind : {"rider"}, of : Riders]
        \cup [kind : {"restaurant"}, of : Restaurants]
        \cup [kind : {"payment"}, of : {Gateway}]

Mark(known) == IF known THEN "known" ELSE "unknown"

(* The entry of k in the tables d, as far as it is shared.                 *)
View(d, k) ==
    CASE k.kind = "customer"   -> Mark(d.customers[k.of] # None)
      [] k.kind = "rider"      -> Mark(k.of \in d.riders)
      [] k.kind = "restaurant" -> Mark(d.restaurants[k.of] # None)
      [] k.kind = "payment"    -> Mark(d.payment_system_port)
      [] k.kind = "order"      -> d.orders_in_process[k.of]

(* The line m gives the entry of k its value.                              *)
About(m, k) ==
    \/ m.type = "UpdateCustomer" /\ k.kind = "customer" /\ k.of = m.customer
    \/ m.type = "UpdateRider" /\ k.kind = "rider" /\ k.of = m.rider
    \/ m.type = "UpdateRestaurant" /\ k.kind = "restaurant" /\ k.of = m.restaurant
    \/ m.type = "UpdatePaymentSystem" /\ k.kind = "payment"
    \/ m.type \in {"UpdateOrder", "RemoveOrder"} /\ k.kind = "order" /\ k.of = m.customer

Touches(lines, k) == \E i \in DOMAIN lines : About(lines[i], k)

(* An entry is of one of the five kinds.                                   *)
LEMMA KeyKinds ==
    ASSUME NEW k \in Keys
    PROVE  \/ k.kind \in {"customer", "order"} /\ k.of \in Customers
           \/ k.kind = "rider" /\ k.of \in Riders
           \/ k.kind = "restaurant" /\ k.of \in Restaurants
           \/ k.kind = "payment" /\ k.of = Gateway
BY DEF Keys

(* The entries, by their kind.                                             *)
LEMMA ViewIs ==
    ASSUME NEW d, NEW k
    PROVE  /\ k.kind = "customer" => View(d, k) = Mark(d.customers[k.of] # None)
           /\ k.kind = "rider" => View(d, k) = Mark(k.of \in d.riders)
           /\ k.kind = "restaurant" => View(d, k) = Mark(d.restaurants[k.of] # None)
           /\ k.kind = "payment" => View(d, k) = Mark(d.payment_system_port)
           /\ k.kind = "order" => View(d, k) = d.orders_in_process[k.of]
BY DEF View

(* Tables are alike when all their entries are the same.                   *)
LEMMA AlikeViews ==
    ASSUME NEW d \in Tables, NEW e \in Tables
    PROVE  Alike(d, e) <=> \A k \in Keys : View(d, k) = View(e, k)
<1>0. /\ d.riders \subseteq Riders /\ e.riders \subseteq Riders
      /\ d.payment_system_port \in BOOLEAN /\ e.payment_system_port \in BOOLEAN
  BY TablesFields
<1>1. ASSUME Alike(d, e), NEW k \in Keys PROVE View(d, k) = View(e, k)
  BY <1>1, KeyKinds, ViewIs DEF Alike
<1>2. ASSUME \A k \in Keys : View(d, k) = View(e, k) PROVE Alike(d, e)
  <2>1. \A p, q \in BOOLEAN : Mark(p) = Mark(q) => p = q
    BY DEF Mark
  <2>2. ASSUME NEW c \in Customers
        PROVE  /\ d.customers[c] # None <=> e.customers[c] # None
               /\ d.orders_in_process[c] = e.orders_in_process[c]
    <3>1. PICK k : k = [kind |-> "customer", of |-> c]
      OBVIOUS
    <3>2. PICK j : j = [kind |-> "order", of |-> c]
      OBVIOUS
    <3>3. /\ k \in Keys /\ k.kind = "customer" /\ k.of = c
          /\ j \in Keys /\ j.kind = "order" /\ j.of = c
      BY <3>1, <3>2 DEF Keys
    <3>4. Mark(d.customers[c] # None) = Mark(e.customers[c] # None)
      BY <1>2, <3>3, ViewIs
    <3>5. d.orders_in_process[c] = e.orders_in_process[c]
      BY <1>2, <3>3, ViewIs
    <3> QED BY <3>4, <3>5 DEF Mark
  <2>3. ASSUME NEW r \in Riders PROVE r \in d.riders <=> r \in e.riders
    <3>1. PICK k : k = [kind |-> "rider", of |-> r]
      OBVIOUS
    <3>2. k \in Keys /\ k.kind = "rider" /\ k.of = r
      BY <3>1 DEF Keys
    <3>3. Mark(r \in d.riders) = Mark(r \in e.riders)
      BY <1>2, <3>2, ViewIs
    <3> QED BY <3>3 DEF Mark
  <2>4. ASSUME NEW x \in Restaurants
        PROVE  d.restaurants[x] # None <=> e.restaurants[x] # None
    <3>1. PICK k : k = [kind |-> "restaurant", of |-> x]
      OBVIOUS
    <3>2. k \in Keys /\ k.kind = "restaurant" /\ k.of = x
      BY <3>1 DEF Keys
    <3>3. Mark(d.restaurants[x] # None) = Mark(e.restaurants[x] # None)
      BY <1>2, <3>2, ViewIs
    <3> QED BY <3>3 DEF Mark
  <2>5. d.payment_system_port = e.payment_system_port
    <3>1. PICK k : k = [kind |-> "payment", of |-> Gateway]
      OBVIOUS
    <3>2. k \in Keys /\ k.kind = "payment"
      BY <3>1 DEF Keys
    <3>3. Mark(d.payment_system_port) = Mark(e.payment_system_port)
      BY <1>2, <3>2, ViewIs
    <3> QED BY <1>0, <3>3 DEF Mark
  <2>6. d.riders = e.riders
    BY <1>0, <2>3
  <2> QED BY <2>2, <2>4, <2>5, <2>6 DEF Alike
<1> QED BY <1>1, <1>2

(* A line leaves every entry alone that it is not about, and gives one that*)
(* it is about the same value in all tables.                               *)
LEMMA HeardView ==
    ASSUME NEW d \in Tables, NEW e \in Tables, NEW m \in Line, NEW k \in Keys
    PROVE  /\ ~About(m, k) => View(Heard(d, m), k) = View(d, k)
           /\ About(m, k) => View(Heard(d, m), k) = View(Heard(e, m), k)
<1>1. CASE ~IsUpdate(m)
  <2>1. ~About(m, k)
    BY <1>1, LineKinds DEF About
  <2> QED BY <1>1, <2>1 DEF Heard
<1>2. CASE IsUpdate(m)
  <2>0. m \in Update /\ Heard(d, m) = Updated(d, m) /\ Heard(e, m) = Updated(e, m)
    BY <1>2, LineKinds DEF Heard
  <2>1. PICK D : D = Updated(d, m)
    OBVIOUS
  <2>2. PICK E : E = Updated(e, m)
    OBVIOUS
  <2>3. /\ d.customers \in [Customers -> Prices \cup {0, None}]
        /\ e.customers \in [Customers -> Prices \cup {0, None}]
        /\ d.restaurants \in [Restaurants -> Restaurant]
        /\ e.restaurants \in [Restaurants -> Restaurant]
        /\ d.orders_in_process \in Orders /\ e.orders_in_process \in Orders
    BY TablesFields
  <2>4. CASE k.kind = "customer"
    <3>1. k.of \in Customers
      BY <2>4, KeyKinds
    <3>2. CASE m.type = "UpdateCustomer"
      <4>1. /\ D.customers = [d.customers EXCEPT ![m.customer] = m.price]
            /\ E.customers = [e.customers EXCEPT ![m.customer] = m.price]
        BY <2>0, <2>1, <2>2, <3>2, UpdatedFields
      <4>2. About(m, k) <=> k.of = m.customer
        BY <2>4, <3>2 DEF About
      <4>3. k.of = m.customer => D.customers[k.of] = E.customers[k.of]
        BY <2>3, <3>1, <4>1
      <4>4. k.of # m.customer => D.customers[k.of] = d.customers[k.of]
        BY <2>3, <3>1, <4>1
      <4> QED BY <2>0, <2>1, <2>2, <2>4, <4>2, <4>3, <4>4, ViewIs
    <3>3. CASE m.type # "UpdateCustomer"
      <4>1. D.customers = d.customers
        BY <2>0, <2>1, <3>3, UpdatedFields
      <4>2. ~About(m, k)
        BY <2>4, <3>3 DEF About
      <4> QED BY <2>0, <2>1, <2>4, <4>1, <4>2, ViewIs
    <3> QED BY <3>2, <3>3
  <2>5. CASE k.kind = "rider"
    <3>1. CASE m.type = "UpdateRider"
      <4>1. D.riders = d.riders \cup {m.rider} /\ E.riders = e.riders \cup {m.rider}
        BY <2>0, <2>1, <2>2, <3>1, UpdatedFields
      <4>2. About(m, k) <=> k.of = m.rider
        BY <2>5, <3>1 DEF About
      <4>3. CASE k.of = m.rider
        <5>1. k.of \in D.riders /\ k.of \in E.riders
          BY <4>1, <4>3
        <5>2. View(D, k) = Mark(TRUE) /\ View(E, k) = Mark(TRUE)
          BY <2>5, <5>1, ViewIs DEF Mark
        <5> QED BY <2>0, <2>1, <2>2, <4>2, <4>3, <5>2
      <4>4. CASE k.of # m.rider
        <5>1. k.of \in D.riders <=> k.of \in d.riders
          BY <4>1, <4>4
        <5>2. View(D, k) = View(d, k)
          BY <2>5, <5>1, ViewIs DEF Mark
        <5> QED BY <2>0, <2>1, <4>2, <4>4, <5>2
      <4> QED BY <4>3, <4>4
    <3>2. CASE m.type # "UpdateRider"
      <4>1. D.riders = d.riders
        BY <2>0, <2>1, <3>2, UpdatedFields
      <4>2. ~About(m, k)
        BY <2>5, <3>2 DEF About
      <4> QED BY <2>0, <2>1, <2>5, <4>1, <4>2, ViewIs
    <3> QED BY <3>1, <3>2
  <2>6. CASE k.kind = "restaurant"
    <3>1. k.of \in Restaurants
      BY <2>6, KeyKinds
    <3>2. CASE m.type = "UpdateRestaurant"
      <4>1. m.restaurant \in Restaurants /\ m.pending_orders # None
        BY <2>0, <3>2, UpdateFields
      <4>2. {} # None
        BY NoneApart, Zenon
      <4>3. /\ D.restaurants = [d.restaurants EXCEPT ![m.restaurant] =
                   IF d.restaurants[m.restaurant] = None THEN {} ELSE m.pending_orders]
            /\ E.restaurants = [e.restaurants EXCEPT ![m.restaurant] =
                   IF e.restaurants[m.restaurant] = None THEN {} ELSE m.pending_orders]
        BY <2>0, <2>1, <2>2, <3>2, UpdatedFields
      <4>4. About(m, k) <=> k.of = m.restaurant
        BY <2>6, <3>2 DEF About
      <4>5. CASE k.of = m.restaurant
        <5>1. D.restaurants[k.of] # None /\ E.restaurants[k.of] # None
          BY <2>3, <3>1, <4>1, <4>2, <4>3, <4>5
        <5>2. View(D, k) = Mark(TRUE) /\ View(E, k) = Mark(TRUE)
          BY <2>6, <5>1, ViewIs DEF Mark
        <5> QED BY <2>0, <2>1, <2>2, <4>4, <4>5, <5>2
      <4>6. CASE k.of # m.restaurant
        <5>1. D.restaurants[k.of] = d.restaurants[k.of]
          BY <2>3, <3>1, <4>3, <4>6
        <5> QED BY <2>0, <2>1, <2>6, <4>4, <4>6, <5>1, ViewIs
      <4> QED BY <4>5, <4>6
    <3>3. CASE m.type # "UpdateRestaurant"
      <4>1. D.restaurants = d.restaurants
        BY <2>0, <2>1, <3>3, UpdatedFields
      <4>2. ~About(m, k)
        BY <2>6, <3>3 DEF About
      <4> QED BY <2>0, <2>1, <2>6, <4>1, <4>2, ViewIs
    <3> QED BY <3>2, <3>3
  <2>7. CASE k.kind = "payment"
    <3>1. CASE m.type = "UpdatePaymentSystem"
      <4>1. D.payment_system_port = TRUE /\ E.payment_system_port = TRUE
        BY <2>0, <2>1, <2>2, <3>1, UpdatedFields
      <4>2. About(m, k)
        BY <2>7, <3>1 DEF About
      <4>3. View(D, k) = Mark(TRUE) /\ View(E, k) = Mark(TRUE)
        BY <2>7, <4>1, ViewIs DEF Mark
      <4> QED BY <2>0, <2>1, <2>2, <4>2, <4>3
    <3>2. CASE m.type # "UpdatePaymentSystem"
      <4>1. D.payment_system_port = d.payment_system_port
        BY <2>0, <2>1, <3>2, UpdatedFields
      <4>2. ~About(m, k)
        BY <2>7, <3>2 DEF About
      <4> QED BY <2>0, <2>1, <2>7, <4>1, <4>2, ViewIs
    <3> QED BY <3>1, <3>2
  <2>8. CASE k.kind = "order"
    <3>1. k.of \in Customers
      BY <2>8, KeyKinds
    <3>2. CASE m.type \in {"UpdateOrder", "RemoveOrder"}
      <4>0. PICK v : v = IF m.type = "UpdateOrder" THEN m.order ELSE None
        OBVIOUS
      <4>1. /\ D.orders_in_process = [d.orders_in_process EXCEPT ![m.customer] = v]
            /\ E.orders_in_process = [e.orders_in_process EXCEPT ![m.customer] = v]
        <5>1. CASE m.type = "UpdateOrder"
          BY <2>0, <2>1, <2>2, <4>0, <5>1, UpdatedFields
        <5>2. CASE m.type = "RemoveOrder"
          BY <2>0, <2>1, <2>2, <4>0, <5>2, UpdatedFields
        <5> QED BY <3>2, <5>1, <5>2
      <4>2. About(m, k) <=> k.of = m.customer
        BY <2>8, <3>2 DEF About
      <4>3. k.of = m.customer => D.orders_in_process[k.of] = E.orders_in_process[k.of]
        BY <2>3, <3>1, <4>1 DEF Orders
      <4>4. k.of # m.customer => D.orders_in_process[k.of] = d.orders_in_process[k.of]
        BY <2>3, <3>1, <4>1 DEF Orders
      <4> QED BY <2>0, <2>1, <2>2, <2>8, <4>2, <4>3, <4>4, ViewIs
    <3>3. CASE m.type \notin {"UpdateOrder", "RemoveOrder"}
      <4>1. D.orders_in_process = d.orders_in_process
        BY <2>0, <2>1, <3>3, UpdatedFields
      <4>2. ~About(m, k)
        BY <2>8, <3>3 DEF About
      <4> QED BY <2>0, <2>1, <2>8, <4>1, <4>2, ViewIs
    <3> QED BY <3>2, <3>3
  <2> QED BY <2>4, <2>5, <2>6, <2>7, <2>8, KeyKinds
<1> QED BY <1>1, <1>2

(* So do many lines.                                                       *)
LEMMA MadeView ==
    ASSUME NEW d \in Tables, NEW e \in Tables, NEW w \in Seq(Line), NEW k \in Keys
    PROVE  /\ Made(d, w) \in Tables
           /\ ~Touches(w, k) => View(Made(d, w), k) = View(d, k)
           /\ Touches(w, k) => View(Made(d, w), k) = View(Made(e, w), k)
<1>0. Len(w) \in Nat /\ DOMAIN w = 1 .. Len(w) /\ \A n \in 1 .. Len(w) : w[n] \in Line
  OBVIOUS
<1>1. PICK f : Steps(f, d, w)
  BY StepsExist
<1>2. PICK g : Steps(g, e, w)
  BY StepsExist
<1>a. \A n \in 1 .. Len(w) : f[n] = Heard(f[n - 1], w[n])
  BY <1>1 DEF Steps
<1>b. \A n \in 1 .. Len(w) : g[n] = Heard(g[n - 1], w[n])
  BY <1>2 DEF Steps
<1> DEFINE Told(n) == \E i \in 1 .. n : About(w[i], k)
           Same(n) == /\ f[n] \in Tables /\ g[n] \in Tables
                      /\ ~Told(n) => View(f[n], k) = View(d, k)
                      /\ Told(n) => View(f[n], k) = View(g[n], k)
           S == {n \in Nat : n <= Len(w) => Same(n)}
<1>3. 0 \in S
  BY <1>1, <1>2 DEF Steps
<1>4. ASSUME NEW n \in Nat, n \in S PROVE n + 1 \in S
  <2> SUFFICES ASSUME n + 1 <= Len(w) PROVE Same(n + 1)
    OBVIOUS
  <2>1. n <= Len(w) /\ n + 1 \in 1 .. Len(w) /\ n + 1 - 1 = n
    BY <1>0
  <2>2. Same(n)
    BY <1>4, <2>1
  <2>3. f[n + 1] = Heard(f[n + 1 - 1], w[n + 1])
    BY <1>a, <2>1
  <2>4. g[n + 1] = Heard(g[n + 1 - 1], w[n + 1])
    BY <1>b, <2>1
  <2>5. PICK m : m = w[n + 1]
    OBVIOUS
  <2>6. f[n + 1] = Heard(f[n], m) /\ g[n + 1] = Heard(g[n], m) /\ m \in Line
    BY <1>0, <2>1, <2>3, <2>4, <2>5
  <2>7. Told(n + 1) <=> Told(n) \/ About(m, k)
    BY <2>1, <2>5
  <2>8. f[n + 1] \in Tables /\ g[n + 1] \in Tables
    <3>1. Alike(f[n], f[n]) /\ Alike(g[n], g[n])
      BY DEF Alike
    <3> QED BY <2>2, <2>6, <3>1, HeardAlike
  <2>9. /\ ~About(m, k) => /\ View(f[n + 1], k) = View(f[n], k)
                           /\ View(g[n + 1], k) = View(g[n], k)
        /\ About(m, k) => View(f[n + 1], k) = View(g[n + 1], k)
    BY <2>2, <2>6, HeardView
  <2> HIDE DEF Told
  <2> QED BY <2>2, <2>7, <2>8, <2>9
<1> HIDE DEF S
<1>5. Nat \subseteq S
  BY <1>3, <1>4, NatsIn
<1>6. Same(Len(w))
  BY <1>0, <1>5 DEF S
<1>7. Told(Len(w)) <=> Touches(w, k)
  BY <1>0 DEF Touches
<1>8. Made(d, w) = f[Len(w)] /\ Made(e, w) = g[Len(w)]
  BY <1>1, <1>2, MadeIs
<1> HIDE DEF Told
<1> QED BY <1>6, <1>7, <1>8

(* An entry that is the same before the lines is the same after them.      *)
LEMMA ViewThrough ==
    ASSUME NEW d \in Tables, NEW e \in Tables, NEW w \in Seq(Line), NEW k \in Keys,
           View(d, k) = View(e, k)
    PROVE  View(Made(d, w), k) = View(Made(e, w), k)
<1>1. /\ ~Touches(w, k) => View(Made(d, w), k) = View(d, k)
      /\ Touches(w, k) => View(Made(d, w), k) = View(Made(e, w), k)
  BY MadeView
<1>2. ~Touches(w, k) => View(Made(e, w), k) = View(e, k)
  BY MadeView
<1> QED BY <1>1, <1>2

(* Which entries the lines touch that come after others, or are taken.     *)
LEMMA TouchesMore ==
    ASSUME NEW a \in Seq(Line), NEW b \in Seq(Line), NEW k
    PROVE  Touches(a \o b, k) <=> Touches(a, k) \/ Touches(b, k)
<1>0. /\ Len(a) \in Nat /\ Len(b) \in Nat
      /\ DOMAIN a = 1 .. Len(a) /\ DOMAIN b = 1 .. Len(b)
  OBVIOUS
<1>1. PICK c : c = a \o b
  OBVIOUS
<1>2. /\ c \in Seq(Line) /\ Len(c) = Len(a) + Len(b)
      /\ \A i \in 1 .. Len(a) + Len(b) :
            c[i] = IF i <= Len(a) THEN a[i] ELSE b[i - Len(a)]
  BY <1>1, ConcatProperties
<1>3. DOMAIN c = 1 .. Len(a) + Len(b)
  BY <1>2
<1>4. ASSUME NEW i \in DOMAIN a, About(a[i], k) PROVE Touches(c, k)
  <2>1. i \in DOMAIN c /\ c[i] = a[i]
    BY <1>0, <1>2, <1>3
  <2> QED BY <1>4, <2>1 DEF Touches
<1>5. ASSUME NEW i \in DOMAIN b, About(b[i], k) PROVE Touches(c, k)
  <2>1. Len(a) + i \in DOMAIN c /\ ~(Len(a) + i <= Len(a)) /\ Len(a) + i - Len(a) = i
    BY <1>0, <1>3
  <2>2. c[Len(a) + i] = b[i]
    BY <1>2, <1>3, <2>1
  <2> QED BY <1>5, <2>1, <2>2 DEF Touches
<1>6. ASSUME NEW i \in DOMAIN c, About(c[i], k) PROVE Touches(a, k) \/ Touches(b, k)
  <2>1. CASE i <= Len(a)
    <3>1. i \in DOMAIN a /\ c[i] = a[i]
      BY <1>0, <1>2, <1>3, <2>1
    <3> QED BY <1>6, <3>1 DEF Touches
  <2>2. CASE ~(i <= Len(a))
    <3>1. i - Len(a) \in DOMAIN b /\ c[i] = b[i - Len(a)]
      BY <1>0, <1>2, <1>3, <2>2
    <3> QED BY <1>6, <3>1 DEF Touches
  <2> QED BY <2>1, <2>2
<1> QED BY <1>1, <1>4, <1>5, <1>6 DEF Touches

(* One line.                                                               *)
LEMMA TouchesOne ==
    ASSUME NEW m \in Line, NEW k
    PROVE  Touches(<<m>>, k) <=> About(m, k)
<1>1. DOMAIN <<m>> = {1} /\ <<m>>[1] = m
  OBVIOUS
<1> QED BY <1>1 DEF Touches

(* The first line, and the rest.                                           *)
LEMMA TouchesTaken ==
    ASSUME NEW w \in Seq(Line), w # <<>>, NEW k
    PROVE  Touches(w, k) <=> About(Head(w), k) \/ Touches(Tail(w), k)
<1>1. /\ Head(w) \in Line /\ Tail(w) \in Seq(Line)
      /\ <<Head(w)>> \in Seq(Line) /\ w = <<Head(w)>> \o Tail(w)
  OBVIOUS
<1>2. PICK h \in Line : h = Head(w)
  BY <1>1
<1>3. PICK r \in Seq(Line) : r = Tail(w)
  BY <1>1
<1>4. PICK q \in Seq(Line) : q = <<h>>
  BY <1>1, <1>2
<1>5. w = q \o r
  BY <1>1, <1>2, <1>3, <1>4
<1>6. Touches(w, k) <=> Touches(q, k) \/ Touches(r, k)
  BY <1>5, TouchesMore
<1>7. Touches(q, k) <=> About(h, k)
  BY <1>4, TouchesOne
<1> QED BY <1>2, <1>3, <1>6, <1>7

(* Lines of the leader touch nothing, nor do those about the queue.        *)
LEMMA CalmTouches ==
    ASSUME NEW w \in Seq(Line), \A i \in DOMAIN w : Calm(w[i]), NEW k
    PROVE  ~Touches(w, k)
<1> SUFFICES ASSUME NEW i \in DOMAIN w, About(w[i], k) PROVE FALSE
  BY DEF Touches
<1>1. w[i] \in Line
  OBVIOUS
<1>2. IsUpdate(w[i])
  BY <1>1, LineKinds DEF About
<1>3. w[i].type \in {"Push", "Pop"}
  BY <1>2 DEF Calm
<1> QED BY <1>3 DEF About

(* What s says of its tables, entry by entry: an entry that it does not    *)
(* touch it has left as it was.                                            *)
LEMMA SaysView ==
    ASSUME NEW d \in Tables, NEW e \in Tables, NEW lines \in Seq(Update),
           Says(d, lines, e), NEW t \in Tables, NEW k \in Keys,
           Touches(lines, k) \/ View(t, k) = View(d, k)
    PROVE  View(Made(t, lines), k) = View(e, k)
<1>1. lines \in Seq(Line)
  BY DEF Line
<1>2. View(Made(d, lines), k) = View(e, k)
  <2>1. Alike(d, d)
    BY DEF Alike
  <2>2. Alike(Made(d, lines), e)
    BY <2>1 DEF Says
  <2>3. Made(d, lines) \in Tables
    BY <1>1, MadeView
  <2> QED BY <2>2, <2>3, AlikeViews
<1>3. CASE Touches(lines, k)
  BY <1>1, <1>2, <1>3, MadeView
<1>4. CASE View(t, k) = View(d, k)
  <2>1. View(Made(t, lines), k) = View(Made(d, lines), k)
    BY <1>1, <1>4, ViewThrough
  <2> QED BY <1>2, <2>1
<1> QED BY <1>3, <1>4

(* An entry that s does not touch it has left as it was.                   *)
LEMMA SaysLeft ==
    ASSUME NEW d \in Tables, NEW e \in Tables, NEW lines \in Seq(Update),
           Says(d, lines, e), NEW k \in Keys, ~Touches(lines, k)
    PROVE  View(d, k) = View(e, k)
<1>1. lines \in Seq(Line)
  BY DEF Line
<1>2. View(Made(d, lines), k) = View(e, k)
  BY SaysView
<1> QED BY <1>1, <1>2, MadeView

----------------------------------------------------------------------------
(* The ring of the survivors.                                              *)
Survivors   == {s \in Servers : Alive(s)}
Others(s)   == Survivors \ {s}
Follower(s) == next_server_peer(s, Others(s))
Leads(s)    == leader[s] = s

(* The next of the survivor s would be l, if that one were there.          *)
IsLast(s, l) == next_server_peer(s, Others(s) \cup {l}) = l

(* The servers have an order.                                              *)
LEMMA Ordered ==
    /\ \A p \in Servers : p \in Nat
    /\ \A p, q \in Servers : p # q => p < q \/ q < p
<1>1. Servers \subseteq Nat
  BY DataRingAssumption
<1> QED BY <1>1

(* What there is about the next server says which it is.                   *)
LEMMA NextIs ==
    ASSUME NEW s \in Servers, NEW peers, peers \subseteq Servers, NEW n \in peers,
           \/ n > s /\ \A p \in peers : p > s => n <= p
           \/ \A p \in peers : ~(p > s) /\ n <= p
    PROVE  next_server_peer(s, peers) = n
<1>0. s \in Nat /\ n \in Nat /\ \A p \in peers : p \in Nat
  BY DataRingAssumption
<1>1. PICK m : m = next_server_peer(s, peers)
  OBVIOUS
<1>2. /\ m \in peers
      /\ \/ m > s /\ \A p \in peers : p > s => m <= p
         \/ /\ \A p \in peers : ~(p > s)
            /\ \A p \in peers : m <= p
  BY <1>1, NextPeer
<1>3. m = n
  <2>1. m \in Nat
    BY <1>0, <1>2
  <2>2. m <= n /\ n <= m
    BY <1>0, <1>2, <2>1
  <2> QED BY <1>0, <2>1, <2>2
<1> QED BY <1>1, <1>3

(* A survivor that is not alone is followed by another one.                *)
LEMMA FollowerIs ==
    ASSUME NEW s \in Servers
    PROVE  /\ Others(s) \subseteq Servers /\ Survivors \subseteq Servers
           /\ Others(s) = {} => Follower(s) = None
           /\ Others(s) # {} => Follower(s) \in Others(s)
           /\ Follower(s) # None =>
                 /\ Follower(s) \in Others(s) /\ Follower(s) \in Survivors
                 /\ Follower(s) # s /\ Alive(Follower(s)) /\ Follower(s) \in Servers
           /\ Follower(s) \in Servers => Follower(s) # None
<1>1. Others(s) \subseteq Servers /\ Survivors \subseteq Servers
  BY DEF Others, Survivors
<1>2. PICK A : A = Others(s)
  OBVIOUS
<1>3. PICK n : n = Follower(s)
  OBVIOUS
<1>4. /\ A = {} => n = None
      /\ A # {} => n \in A /\ n # None
  BY <1>1, <1>2, <1>3, NextPeer DEF Follower
<1>5. None \notin Servers
  BY DataRingAssumption
<1> QED BY <1>1, <1>2, <1>3, <1>4, <1>5 DEF Others, Survivors

(* The lowest of the higher ones, or of all.                               *)
LEMMA FollowerOrder ==
    ASSUME NEW s \in Survivors, NEW t \in Survivors, s # t
    PROVE  /\ Follower(s) \in Survivors /\ Follower(s) # s
           /\ s < t => s < Follower(s) /\ Follower(s) <= t
           /\ (\A r \in Survivors : r <= s) => Follower(s) <= t
<1>1. s \in Servers /\ t \in Servers /\ t \in Others(s)
  BY DEF Survivors, Others
<1>2. Follower(s) \in Survivors /\ Follower(s) # s
  BY <1>1, FollowerIs
<1>3. s \in Nat /\ t \in Nat /\ Survivors \subseteq Nat
  BY DataRingAssumption DEF Survivors
<1>4. PICK A : A = Others(s)
  OBVIOUS
<1>5. PICK n : n = Follower(s)
  OBVIOUS
<1>6. /\ A \subseteq Servers /\ A # {} /\ t \in A
      /\ n = next_server_peer(s, A)
  BY <1>1, <1>4, <1>5, FollowerIs DEF Follower
<1>7. /\ n \in A
      /\ \/ /\ n > s
            /\ \A p \in A : p > s => n <= p
         \/ /\ \A p \in A : ~(p > s)
            /\ \A p \in A : n <= p
  BY <1>1, <1>6, NextPeer
<1>8. n \in Nat
  BY <1>2, <1>3, <1>5
<1>9. s < t => s < n /\ n <= t
  BY <1>3, <1>6, <1>7, <1>8
<1>10. (\A r \in Survivors : r <= s) => n <= t
  <2> SUFFICES ASSUME \A r \in Survivors : r <= s PROVE n <= t
    OBVIOUS
  <2>1. ~(n > s)
    <3>1. n <= s
      BY <1>2, <1>5
    <3> QED BY <1>3, <1>8, <3>1
  <2> QED BY <1>6, <1>7, <2>1
<1> QED BY <1>2, <1>5, <1>9, <1>10

(* No two have the same.                                                   *)
LEMMA FollowerOne ==
    ASSUME NEW p \in Survivors, NEW q \in Survivors, Follower(p) = Follower(q),
           Follower(p) # None
    PROVE  p = q
<1> SUFFICES ASSUME p # q PROVE FALSE
  OBVIOUS
<1>1. p \in Servers /\ q \in Servers
  BY DEF Survivors
<1>2. PICK P, Q : P = Others(p) /\ Q = Others(q)
  OBVIOUS
<1>3. P \subseteq Servers /\ Q \subseteq Servers /\ q \in P /\ p \in Q
  BY <1>1, <1>2 DEF Others, Survivors
<1>4. PICK n \in Servers : n = Follower(p)
  BY <1>1, FollowerIs
<1>5. n \notin {p, q} /\ next_server_peer(p, P) = n /\ next_server_peer(q, Q) = n
  <2>1. Follower(p) # p /\ Follower(q) # q
    BY <1>1, FollowerIs
  <2> QED BY <1>2, <1>4, <2>1 DEF Follower
<1>6. p < q \/ q < p
  BY <1>1, Ordered
<1> QED BY <1>1, <1>3, <1>5, <1>6, NextOrdered

(* One more server is next, or leaves the next one as it is.               *)
LEMMA NextOfMore ==
    ASSUME NEW s \in Servers, NEW A, A \subseteq Servers, NEW l \in Servers,
           NEW n, n = next_server_peer(s, A \cup {l}), n # l
    PROVE  n = next_server_peer(s, A)
<1>1. PICK B : B = A \cup {l}
  OBVIOUS
<1>2. B \subseteq Servers /\ B # {}
  BY <1>1
<1>a. PICK m : m = next_server_peer(s, B)
  OBVIOUS
<1>b. /\ m \in B
      /\ \/ m > s /\ \A p \in B : p > s => m <= p
         \/ /\ \A p \in B : ~(p > s)
            /\ \A p \in B : m <= p
  BY <1>2, <1>a, NextPeer
<1>3. /\ n \in B
      /\ \/ n > s /\ \A p \in B : p > s => n <= p
         \/ \A p \in B : ~(p > s) /\ n <= p
  BY <1>1, <1>a, <1>b
<1>4. n \in A /\ A \subseteq B
  BY <1>1, <1>3
<1> QED BY <1>3, <1>4, NextIs

(* Only one survivor comes before l,                                       *)
LEMMA LastOne ==
    ASSUME NEW l \in Servers, ~Alive(l), NEW p \in Survivors, NEW q \in Survivors,
           IsLast(p, l), IsLast(q, l)
    PROVE  p = q
<1> SUFFICES ASSUME p # q PROVE FALSE
  OBVIOUS
<1>1. p \in Servers /\ q \in Servers /\ l \notin {p, q}
  BY DEF Survivors
<1>2. PICK P, Q : P = Others(p) \cup {l} /\ Q = Others(q) \cup {l}
  OBVIOUS
<1>3. P \subseteq Servers /\ Q \subseteq Servers /\ q \in P /\ p \in Q
  BY <1>1, <1>2 DEF Others, Survivors
<1>4. next_server_peer(p, P) = l /\ next_server_peer(q, Q) = l
  BY <1>2 DEF IsLast
<1>5. p < q \/ q < p
  BY <1>1, Ordered
<1> QED BY <1>1, <1>3, <1>4, <1>5, NextOrdered

(* the one that is followed by the server that followed l.                 *)
LEMMA LastBefore ==
    ASSUME NEW l \in Servers, ~Alive(l), NEW p \in Survivors, Follower(p) # None,
           Follower(p) = Follower(l)
    PROVE  IsLast(p, l)
<1>1. p \in Servers /\ l # p /\ Others(l) = Survivors
  BY DEF Survivors, Others
<1>2. PICK P, Q : P = Others(p) \cup {l} /\ Q = Others(l)
  OBVIOUS
<1>3. P \subseteq Servers /\ Q \subseteq Servers /\ l \in P /\ p \in Q
  BY <1>1, <1>2 DEF Others, Survivors
<1>4. PICK n : n = next_server_peer(p, P)
  OBVIOUS
<1> SUFFICES ASSUME n # l PROVE FALSE
  BY <1>2, <1>4 DEF IsLast
<1>5. n = Follower(p)
  <2>1. Others(p) \subseteq Servers
    BY <1>1, FollowerIs
  <2> QED BY <1>1, <1>2, <1>4, <2>1, NextOfMore DEF Follower
<1>6. n \in Servers /\ n \notin {p, l} /\ next_server_peer(l, Q) = n
  <2>1. n \in Servers /\ n # p
    BY <1>1, <1>5, FollowerIs
  <2> QED BY <1>2, <1>5, <2>1 DEF Follower
<1>7. p < l \/ l < p
  BY <1>1, Ordered
<1> QED BY <1>1, <1>3, <1>4, <1>6, <1>7, NextOrdered

(* The set D of servers has one value, if all but the highest have that of *)
(* a higher one.                                                           *)
LEMMA OneUpward ==
    ASSUME NEW D, D \subseteq Survivors, NEW f, NEW t \in D,
           \A p \in D \ {t} : \E q \in D : q > p /\ f[q] = f[p]
    PROVE  \A p \in D : f[p] = f[t]
<1> DEFINE C == {p \in D : f[p] # f[t]}
<1> SUFFICES ASSUME C # {} PROVE FALSE
  OBVIOUS
<1>1. C \subseteq Nat /\ IsFiniteSet(C)
  <2>1. C \subseteq Servers
    BY DEF Survivors
  <2> HIDE DEF C
  <2> QED BY <2>1, DataRingAssumption, FS_Subset
<1>2. PICK m \in C : \A n \in C : n <= m
  <2> HIDE DEF C
  <2> QED BY <1>1, TopOfNats
<1>3. PICK q \in D : q > m /\ f[q] = f[m]
  BY <1>2
<1>4. q \in C
  BY <1>2, <1>3
<1>5. q \in Nat /\ m \in Nat /\ q <= m
  BY <1>1, <1>2, <1>4
<1> QED BY <1>3, <1>5

(* When all survivors but one have the value of their followers, they have *)
(* one value.                                                              *)
LEMMA OneRound ==
    ASSUME NEW f, NEW z \in Survivors,
           \A p \in Survivors : p # z /\ Follower(p) # None => f[Follower(p)] = f[p]
    PROVE  \A p \in Survivors : f[p] = f[z]
<1>0. Survivors \subseteq Nat /\ IsFiniteSet(Survivors)
  <2>1. Survivors \subseteq Servers
    BY DEF Survivors
  <2> QED BY <2>1, DataRingAssumption, FS_Subset
<1>1. PICK top \in Survivors : \A p \in Survivors : p <= top
  BY <1>0, TopOfNats
<1>2. ASSUME NEW p \in Survivors, NEW t \in Survivors, p < t, p # z
      PROVE  /\ Follower(p) \in Survivors /\ Follower(p) > p /\ Follower(p) <= t
             /\ f[Follower(p)] = f[p]
  <2>1. p # t
    BY <1>0, <1>2
  <2>2. /\ Follower(p) \in Survivors
        /\ p < Follower(p) /\ Follower(p) <= t
    BY <1>2, <2>1, FollowerOrder
  <2>3. Follower(p) # None
    BY <2>2, DataRingAssumption DEF Survivors
  <2> QED BY <1>0, <1>2, <2>2, <2>3
<1>3. PICK D : D = {p \in Survivors : p <= z}
  OBVIOUS
<1>4. PICK U : U = {p \in Survivors : p > z}
  OBVIOUS
<1>5. \A p \in D : f[p] = f[z]
  <2>1. z \in D /\ D \subseteq Survivors
    BY <1>0, <1>3
  <2>2. ASSUME NEW p \in D \ {z} PROVE \E q \in D : q > p /\ f[q] = f[p]
    <3>1. p \in Survivors /\ p < z
      BY <1>0, <1>3
    <3>2. Follower(p) \in D /\ Follower(p) > p /\ f[Follower(p)] = f[p]
      BY <1>2, <1>3, <3>1
    <3> QED BY <3>2
  <2> QED BY <2>1, <2>2, OneUpward
<1>6. CASE top = z
  BY <1>1, <1>3, <1>5, <1>6
<1>7. CASE top # z
  <2>1. top \in U /\ U \subseteq Survivors /\ z \notin U
    BY <1>0, <1>1, <1>4, <1>7
  <2>2. ASSUME NEW p \in U \ {top} PROVE \E q \in U : q > p /\ f[q] = f[p]
    <3>1. p \in Survivors /\ p < top /\ p # z
      BY <1>0, <1>1, <1>4, <2>1
    <3>2. Follower(p) \in Survivors /\ Follower(p) > p /\ f[Follower(p)] = f[p]
      BY <1>1, <1>2, <3>1
    <3>3. p > z /\ p \in Nat /\ z \in Nat /\ Follower(p) \in Nat
      BY <1>0, <1>4, <3>2
    <3>4. Follower(p) \in U
      BY <1>4, <3>2, <3>3
    <3> QED BY <3>2, <3>4
  <2>3. \A p \in U : f[p] = f[top]
    <3>1. \A p \in U \ {top} : \E q \in U : q > p /\ f[q] = f[p]
      BY <2>2
    <3>2. U \subseteq Survivors /\ top \in U
      BY <2>1
    <3> QED BY ONLY <3>1, <3>2, OneUpward
  <2>4. f[top] = f[z]
    <3>1. Follower(top) \in Survivors /\ Follower(top) <= z
      BY <1>1, <1>7, FollowerOrder
    <3>2. Follower(top) # None
      BY <3>1, DataRingAssumption DEF Survivors
    <3>3. f[Follower(top)] = f[top]
      BY <1>7, <3>2
    <3>4. Follower(top) \in D
      BY <1>3, <3>1
    <3> QED BY <1>5, <3>3, <3>4
  <2>5. ASSUME NEW p \in Survivors PROVE p \in D \/ p \in U
    BY <1>0, <1>3, <1>4
  <2> QED BY <1>5, <2>3, <2>4, <2>5
<1> QED BY <1>6, <1>7

----------------------------------------------------------------------------
(* The invariant: l was the leader, the survivors have it as theirs until  *)
(* one of them takes over.                                                 *)

(* h leads the survivors, that have all forgotten l.                       *)
Chief(h) ==
    /\ h \in Survivors /\ Leads(h)
    /\ \A t \in Survivors : t <= h /\ server_peers[t] = Others(t)

(* What the survivors know of each other, and of l.                        *)
Heir(s, l) ==
    /\ server_peers[s] = Others(s) \/ server_peers[s] = Others(s) \cup {l}
    /\ leader[s] = l \/ Chief(leader[s])
    /\ connected[s] # {} \/ state[s] = "panicked" => Leads(s)
    /\ l \notin server_peers[s] => wire[l][s] = <<>>

(* A request for a rider is with a server that leads.                      *)
Asked == \A m \in due : m.type = "FindRider" => m.at \in Survivors /\ Leads(m.at)

(* The lines that may be on the way from a to the survivor b: updates, if b*)
(* is the next of a, and that a leads, if it does.                         *)
Fit(a, b, l) ==
    {m \in Line :
        /\ m.type # "LeaderData"
        /\ m.type = "Coordinator" => a \in Survivors /\ Leads(a)
        /\ IsUpdate(m) => \/ a = l /\ b = Follower(l)
                          \/ a \in Survivors /\ b = NextOf(a)}

Mail(l) == \A a \in Servers, b \in Survivors : wire[a][b] \in Seq(Fit(a, b, l))

(* The updates that the servers of X are sending on will reach p: each is  *)
(* followed by p or by another of X, which sends on what it is sent.  Only *)
(* the last survivor before l is fed so, once its follower has heard of    *)
(* the loss of l; before that its follower is one of them.                 *)
Feeds(X, p, l) ==
    /\ X \subseteq Survivors \ {p}
    /\ X # {} => IsLast(p, l)
    /\ \A r \in X : /\ Follower(r) = p \/ Follower(r) \in X
                    /\ ~Leads(Follower(Follower(r)))
    /\ IsLast(p, l) /\ l \in server_peers[Follower(p)] => Follower(p) \in X

Untouched(X, k) == \A r \in X : ~Touches(wire[r][Follower(r)], k)

(* With what is on the way to it, the follower of p has the entry of p,    *)
(* unless p will be told another one.                                      *)
Behind(p, X) ==
    \A k \in Keys : Untouched(X, k) =>
        View(Made(tables[Follower(p)], wire[p][Follower(p)]), k) = View(tables[p], k)

Chained(p, l) ==
    NextOf(p) = Follower(p) /\ Follower(p) # None /\ ~Leads(Follower(p)) =>
        \E X \in SUBSET Survivors : Feeds(X, p, l) /\ Behind(p, X)

Bereft(l) ==
    /\ ~Alive(l) /\ starting = None
    /\ \A s \in Survivors : Heir(s, l)
    /\ Asked /\ Mail(l)

Orphans(l) == Bereft(l) /\ \A p \in Survivors : Chained(p, l)

(* No server leads but the chief, there is one at most, and while it leads *)
(* nobody awaits l.                                                        *)
LEMMA OneChief ==
    ASSUME NEW l \in Servers, Bereft(l)
    PROVE  /\ \A s \in Survivors : Leads(s) => Chief(s)
           /\ \A g, h \in Survivors : Chief(g) /\ Chief(h) => g = h
           /\ \A s \in Survivors : l \in server_peers[s] => \A h \in Survivors : ~Chief(h)
           /\ \A s \in Survivors : leader[s] # l => leader[s] \in Survivors
           /\ \A s \in Survivors : s \in Servers /\ s # l
<1>1. l \notin Survivors /\ Survivors \subseteq Servers
  BY DEF Bereft, Survivors
<1>2. \A s \in Survivors : Leads(s) => Chief(s)
  BY <1>1 DEF Bereft, Heir, Leads
<1>3. ASSUME NEW g \in Survivors, NEW h \in Survivors, Chief(g), Chief(h) PROVE g = h
  <2>1. g <= h /\ h <= g /\ g \in Servers /\ h \in Servers
    BY <1>1, <1>3 DEF Chief
  <2> QED BY <2>1, Ordered
<1>4. ASSUME NEW s \in Survivors, l \in server_peers[s], NEW h \in Survivors, Chief(h)
      PROVE  FALSE
  BY <1>1, <1>4 DEF Chief, Others
<1>5. ASSUME NEW s \in Survivors, leader[s] # l PROVE leader[s] \in Survivors
  <2>1. Chief(leader[s])
    BY <1>5 DEF Bereft, Heir
  <2> QED BY <2>1 DEF Chief
<1> QED BY <1>1, <1>2, <1>3, <1>4, <1>5

(* The next of a survivor is its follower, or l.                           *)
LEMMA NextLeft ==
    ASSUME NEW l \in Servers, Bereft(l), NEW s \in Survivors
    PROVE  /\ NextOf(s) = l \/ NextOf(s) = Follower(s)
           /\ l \notin server_peers[s] => NextOf(s) = Follower(s)
           /\ ~IsLast(s, l) => NextOf(s) = Follower(s)
           /\ NextOf(s) = l => l \in server_peers[s] /\ IsLast(s, l)
           /\ Follower(s) # l /\ l \notin Others(s)
<1>1. s \in Servers /\ l \notin Survivors /\ l # s
  BY DEF Bereft, Survivors
<1>2. Others(s) \subseteq Servers /\ Follower(s) # l /\ l \notin Others(s)
  <2>1. Follower(s) = None \/ Follower(s) \in Survivors
    BY <1>1, FollowerIs
  <2>2. l # None
    BY DataRingAssumption
  <2> QED BY <1>1, <2>1, <2>2, FollowerIs DEF Others
<1>3. server_peers[s] = Others(s) \/ server_peers[s] = Others(s) \cup {l}
  BY DEF Bereft, Heir
<1>4. CASE server_peers[s] = Others(s)
  BY <1>2, <1>4 DEF NextOf, Follower
<1>5. CASE server_peers[s] = Others(s) \cup {l}
  <2>1. PICK n : n = next_server_peer(s, Others(s) \cup {l})
    OBVIOUS
  <2>2. NextOf(s) = n /\ l \in server_peers[s]
    BY <1>5, <2>1 DEF NextOf
  <2>3. n # l => n = next_server_peer(s, Others(s))
    BY <1>1, <1>2, <2>1, NextOfMore
  <2>4. n = l <=> IsLast(s, l)
    BY <2>1 DEF IsLast
  <2> QED BY <1>2, <2>2, <2>3, <2>4 DEF Follower
<1> QED BY <1>3, <1>4, <1>5

(* It sends on what it is sent, unless its follower leads.                 *)
LEMMA SendsOn ==
    ASSUME NEW l \in Servers, Bereft(l), NEW s \in Survivors, NextOf(s) = Follower(s),
           Follower(s) # None, ~Leads(Follower(s))
    PROVE  GoesOn(s, NextOf(s)) /\ Follower(s) \in Survivors
<1>1. s \in Servers
  BY DEF Survivors
<1>2. Follower(s) \in Survivors /\ Follower(s) # l
  BY <1>1, FollowerIs, NextLeft
<1>3. leader[s] = l \/ leader[s] \in Survivors
  BY OneChief
<1>4. leader[s] # None
  <2>1. Survivors \subseteq Servers
    BY DEF Survivors
  <2> QED BY <1>3, <2>1, DataRingAssumption
<1>5. leader[s] # Follower(s)
  <2> SUFFICES ASSUME leader[s] = Follower(s) PROVE FALSE
    OBVIOUS
  <2>1. Chief(leader[s])
    BY <1>2 DEF Bereft, Heir
  <2> QED BY <2>1 DEF Chief
<1> QED BY <1>2, <1>4, <1>5 DEF GoesOn

(* Nothing of this changes while nobody goes, comes or forgets another.    *)
LEMMA RingStays ==
    ASSUME \A s \in Servers : Alive(s)' <=> Alive(s)
    PROVE  /\ Survivors' = Survivors
           /\ \A s : Others(s)' = Others(s) /\ Follower(s)' = Follower(s)
           /\ \A s, l : IsLast(s, l)' <=> IsLast(s, l)
<1>1. Survivors' = Survivors
  BY DEF Survivors
<1>2. \A s : Others(s)' = Others(s)
  BY <1>1 DEF Others
<1> QED BY <1>1, <1>2 DEF Follower, IsLast

(* A server that feeds p comes not before l, and sends on what it is sent. *)
LEMMA FedBy ==
    ASSUME NEW l \in Servers, Bereft(l), NEW p \in Survivors, NEW X, Feeds(X, p, l), NEW r \in X
    PROVE  /\ r \in Survivors /\ r \in Servers /\ r # p
           /\ Follower(r) \in Survivors /\ Follower(r) # r /\ Follower(r) # None
           /\ Follower(r) = p \/ Follower(r) \in X
           /\ Follower(Follower(r)) \in Survivors
           /\ ~Leads(Follower(Follower(r)))
           /\ ~IsLast(r, l) /\ NextOf(r) = Follower(r)
<1>1. /\ r \in Survivors /\ r # p /\ IsLast(p, l)
      /\ Follower(r) = p \/ Follower(r) \in X
      /\ ~Leads(Follower(Follower(r)))
      /\ X \subseteq Survivors /\ ~Alive(l)
  BY DEF Feeds, Bereft
<1>2. ~IsLast(r, l)
  BY <1>1, LastOne
<1>3. NextOf(r) = Follower(r)
  BY <1>1, <1>2, NextLeft
<1>4. PICK n \in Survivors : n = Follower(r)
  BY <1>1
<1>5. r \in Servers /\ n # r /\ n # None
  <2>1. r \in Servers /\ n \in Servers
    BY <1>1 DEF Survivors
  <2> QED BY <1>4, <2>1, FollowerIs
<1>6. Follower(n) \in Survivors
  BY <1>1, <1>5, FollowerOrder
<1> QED BY <1>1, <1>2, <1>3, <1>4, <1>5, <1>6

(* It goes on to be fed, while no server begins to lead.                   *)
LEMMA FeedsStay ==
    ASSUME NEW l \in Servers, Bereft(l), NEW p \in Survivors, NEW X, Feeds(X, p, l),
           Follower(p) # None, \A s \in Servers : Alive(s)' <=> Alive(s),
           \A s \in Servers : server_peers'[s] \subseteq server_peers[s],
           \A s \in Survivors : Leads(s)' => Leads(s)
    PROVE  Feeds(X, p, l)'
<1>1. /\ Survivors' = Survivors
      /\ \A s : Follower(s)' = Follower(s)
      /\ IsLast(p, l)' <=> IsLast(p, l)
  BY RingStays
<1>2. Follower(p) \in Servers
  <2>1. p \in Servers
    BY DEF Survivors
  <2> QED BY <2>1, FollowerIs
<1>3. /\ X \subseteq Survivors \ {p}
      /\ X # {} => IsLast(p, l)
      /\ IsLast(p, l) /\ l \in server_peers[Follower(p)] => Follower(p) \in X
  BY DEF Feeds
<1>4. ASSUME NEW r \in X
      PROVE  /\ Follower(r) = p \/ Follower(r) \in X
             /\ leader'[Follower(Follower(r))] # Follower(Follower(r))
  <2>1. PICK m \in Survivors : m = Follower(Follower(r)) /\ ~Leads(m)
    BY FedBy
  <2>2. leader'[m] # m
    BY <2>1 DEF Leads
  <2> QED BY <2>1, <2>2, FedBy
<1>5. \A r : Follower(Follower(r))' = Follower(Follower(r))
  BY <1>1
<1>6. \A r \in X : ~Leads(Follower(Follower(r)))'
  BY <1>4, <1>5 DEF Leads
<1>7. \A r \in X : Follower(r)' = p \/ Follower(r)' \in X
  BY <1>1, <1>4
<1>8. l \in server_peers'[Follower(p)'] => l \in server_peers[Follower(p)]
  BY <1>1, <1>2
<1> QED BY <1>1, <1>3, <1>6, <1>7, <1>8 DEF Feeds

(* What s sends on, and to whom.                                           *)
LEMMA SentAll ==
    ASSUME NEW l \in Servers, Bereft(l), NEW s \in Survivors, NEW w \in Wires,
           server_peers' = server_peers,
           NEW ring \in Seq(Update), NEW direct \in Seq(Update), Sent(s, w, ring, direct)
    PROVE  /\ \A a, b \in Servers : a # s => wire'[a][b] = w[a][b]
           /\ \A b \in Servers : \A k : Touches(w[s][b], k) => Touches(wire'[s][b], k)
           /\ NextOf(s) = Follower(s) /\ Follower(s) # None /\ ~Leads(Follower(s)) =>
                 wire'[s][Follower(s)] = w[s][Follower(s)] \o (ring \o direct)
<1>1. s \in Servers /\ NextOf(s)' = NextOf(s)
  BY DEF Survivors, NextOf
<1>2. \A a, b \in Servers : wire'[a][b] =
         IF a = s /\ b = NextOf(s) /\ Alive(b)
         THEN w[a][b] \o Gone(s, ring, direct) ELSE w[a][b]
  BY <1>1 DEF Sent
<1>3. PICK gone : gone = Gone(s, ring, direct)
  OBVIOUS
<1>4. gone \in Seq(Line)
  <2>1. gone \in Seq(Update)
    BY <1>3 DEF Gone
  <2> QED BY <2>1 DEF Line
<1>5. ASSUME NEW b \in Servers, NEW k, Touches(w[s][b], k) PROVE Touches(wire'[s][b], k)
  <2>1. w[s][b] \in Seq(Line)
    BY <1>1 DEF Wires
  <2>2. wire'[s][b] = w[s][b] \o gone \/ wire'[s][b] = w[s][b]
    BY <1>1, <1>2, <1>3
  <2> QED BY <1>4, <1>5, <2>1, <2>2, TouchesMore
<1>6. ASSUME NextOf(s) = Follower(s), Follower(s) # None, ~Leads(Follower(s))
      PROVE  wire'[s][Follower(s)] = w[s][Follower(s)] \o (ring \o direct)
  <2>1. GoesOn(s, NextOf(s)) /\ Follower(s) \in Survivors
    BY <1>6, SendsOn
  <2>2. Gone(s, ring, direct) = ring \o direct
    BY <1>1, <2>1 DEF Gone
  <2>3. Follower(s) \in Servers /\ Alive(Follower(s))
    BY <2>1 DEF Survivors
  <2> QED BY <1>1, <1>2, <1>6, <2>2, <2>3
<1> QED BY <1>1, <1>2, <1>5, <1>6

(* What the chief does and says of it leaves the ring as it is.            *)
LEMMA ClientChained ==
    ASSUME TypeInv, NEW l \in Servers, Orphans(l), NEW s \in Survivors, Leads(s),
           UNCHANGED <<state, server_peers, leader>>,
           NEW e \in Tables, NEW ring \in Seq(Update), NEW direct \in Seq(Update),
           tables' = [tables EXCEPT ![s] = e], Sent(s, wire, ring, direct),
           Says(tables[s], ring \o direct, e)
    PROVE  \A p \in Survivors' : Chained(p, l)'
<1>1. /\ Survivors' = Survivors
      /\ \A p : Follower(p)' = Follower(p)
      /\ \A p : NextOf(p)' = NextOf(p) /\ (Leads(p)' <=> Leads(p))
  BY RingStays DEF Alive, NextOf, Leads
<1>2. Bereft(l) /\ s \in Servers
  BY DEF Orphans, Survivors
<1>3. /\ tables \in [Servers -> Tables] /\ wire \in Wires
  BY DEF TypeInv, TypeOK, Wires
<1> SUFFICES ASSUME NEW p \in Survivors, NextOf(p) = Follower(p), Follower(p) # None,
                    ~Leads(Follower(p))
             PROVE  \E X \in SUBSET Survivors : Feeds(X, p, l)' /\ Behind(p, X)'
  BY <1>1 DEF Chained
<1>4. PICK X \in SUBSET Survivors : Feeds(X, p, l) /\ Behind(p, X)
  BY DEF Orphans, Chained
<1>5. Feeds(X, p, l)'
  BY <1>1, <1>2, <1>4, FeedsStay DEF Alive
<1>6. PICK n : n = Follower(p)
  OBVIOUS
<1>7. p \in Servers /\ n \in Survivors /\ n \in Servers /\ n # s
  <2>1. p \in Servers
    BY DEF Survivors
  <2> QED BY <1>6, <2>1, FollowerIs
<1>8. /\ \A a, b \in Servers : a # s => wire'[a][b] = wire[a][b]
      /\ \A b \in Servers : \A k : Touches(wire[s][b], k) => Touches(wire'[s][b], k)
      /\ NextOf(s) = Follower(s) /\ Follower(s) # None /\ ~Leads(Follower(s)) =>
            wire'[s][Follower(s)] = wire[s][Follower(s)] \o (ring \o direct)
  <2>1. wire \in Wires /\ server_peers' = server_peers
    BY <1>3
  <2>2. Bereft(l)
    BY <1>2
  <2> QED BY <2>1, <2>2, SentAll
<1>9. ASSUME NEW k \in Keys, Untouched(X, k)'
      PROVE  View(Made(tables'[n], wire'[p][n]), k) = View(tables'[p], k)
  <2>1. Untouched(X, k)
    <3> SUFFICES ASSUME NEW r \in X, Touches(wire[r][Follower(r)], k) PROVE FALSE
      BY DEF Untouched
    <3>1. r \in Servers /\ Follower(r) \in Servers
      BY <1>2, <1>4, FedBy DEF Survivors
    <3>2. ~Touches(wire'[r][Follower(r)], k)
      BY <1>1, <1>9 DEF Untouched, Touches
    <3> QED BY <1>8, <3>1, <3>2
  <2>2. View(Made(tables[n], wire[p][n]), k) = View(tables[p], k)
    BY <1>4, <1>6, <2>1 DEF Behind
  <2>3. tables'[n] = tables[n]
    BY <1>3, <1>7
  <2>4. CASE p # s
    <3>1. tables'[p] = tables[p] /\ wire'[p][n] = wire[p][n]
      BY <1>3, <1>7, <1>8, <2>4
    <3> QED BY <2>2, <2>3, <3>1
  <2>5. CASE p = s
    <3>0. wire'[s][n] = wire[s][n] \o (ring \o direct)
      BY <1>6, <1>8, <2>5
    <3>1. tables'[p] = e /\ wire'[p][n] = wire[p][n] \o (ring \o direct)
      <4>1. tables'[s] = e
        BY <1>2, <1>3
      <4> QED BY <2>5, <3>0, <4>1
    <3>2. PICK lines \in Seq(Update) : lines = ring \o direct
      BY ConcatProperties
    <3>3. lines \in Seq(Line) /\ wire[p][n] \in Seq(Line) /\ tables[n] \in Tables /\ tables[s] \in Tables
      <4>1. lines \in Seq(Line)
        BY DEF Line
      <4>2. wire[p][n] \in Seq(Line)
        BY <1>3, <1>7 DEF Wires
      <4>3. tables[n] \in Tables /\ tables[s] \in Tables
        BY <1>2, <1>3, <1>7
      <4> QED BY <4>1, <4>2, <4>3
    <3>4. PICK t : t = Made(tables[n], wire[p][n])
      OBVIOUS
    <3>5. t \in Tables /\ View(t, k) = View(tables[s], k)
      BY <2>2, <2>5, <3>3, <3>4, MadeView
    <3>a. PICK d : d = tables[s]
      OBVIOUS
    <3>b. d \in Tables /\ Says(d, lines, e) /\ View(t, k) = View(d, k)
      BY <3>2, <3>3, <3>5, <3>a
    <3>6. View(Made(t, lines), k) = View(e, k)
      BY <3>5, <3>b, SaysView
    <3>7. Made(tables[n], wire[p][n] \o lines) = Made(t, lines)
      BY <3>3, <3>4, MadeConcat
    <3> QED BY <2>3, <3>1, <3>2, <3>6, <3>7
  <2> QED BY <2>4, <2>5
<1>10. Behind(p, X)'
  <2>1. \A k \in Keys : Untouched(X, k)' =>
           View(Made(tables'[n], wire'[p][n]), k) = View(tables'[p], k)
    BY <1>9
  <2> QED BY <1>1, <1>6, <2>1 DEF Behind
<1> QED BY <1>4, <1>5, <1>10

(* One line, and the first of more.                                        *)
LEMMA OneLine ==
    ASSUME NEW K, NEW m \in K
    PROVE  <<m>> \in Seq(K)
OBVIOUS

LEMMA FirstOf ==
    ASSUME NEW K, NEW q \in Seq(K), q # <<>>
    PROVE  Head(q) \in K /\ Tail(q) \in Seq(K)
OBVIOUS

(* What a server tells of an update that it has made.                      *)
LEMMA UpdateTold ==
    ASSUME NEW d \in Tables, NEW u \in Update, NEW e \in Tables,
           SameButQueue(Updated(d, u), e), NEW direct \in Seq(Update), Quiet(direct)
    PROVE  /\ <<u>> \o direct \in Seq(Update)
           /\ Says(d, <<u>> \o direct, e)
           /\ \A k : Touches(<<u>> \o direct, k) <=> About(u, k)
           /\ \A k \in Keys : /\ View(e, k) = View(Heard(d, u), k)
                              /\ ~About(u, k) => View(e, k) = View(d, k)
<1>1. PICK f : f = Updated(d, u)
  OBVIOUS
<1>2. /\ f \in Tables /\ u \in Line /\ Heard(d, u) = f
  <2>1. u \in Line /\ IsUpdate(u)
    BY LineKinds DEF Line
  <2>2. Heard(d, u) = f
    BY <1>1, <2>1 DEF Heard
  <2>3. Heard(d, u) \in Tables
    BY <2>1, HeardAlike DEF Alike
  <2> QED BY <2>1, <2>2, <2>3
<1>3. PICK ring \in Seq(Update) : ring = <<u>>
  BY OneLine
<1>4. Alike(f, e) /\ Alike(f, f)
  BY <1>1, QueueAlike DEF Alike
<1>5. Says(d, ring \o direct, e)
  <2>1. Says(d, ring, f)
    BY <1>1, <1>3, <1>4, SaysOne
  <2>2. Says(d, ring, e) /\ Says(e, direct, e)
    BY <1>1, <2>1, QuietSays
  <2> QED BY <2>2, SaysThen
<1>6. ASSUME NEW k PROVE Touches(ring \o direct, k) <=> About(u, k)
  <2>1. ring \in Seq(Line) /\ direct \in Seq(Line)
    BY DEF Line
  <2>2. Touches(ring, k) <=> About(u, k)
    BY <1>2, <1>3, TouchesOne
  <2>3. ~Touches(direct, k)
    <3>1. \A i \in DOMAIN direct : Calm(direct[i])
      BY DEF Quiet, Calm
    <3> QED BY <2>1, <3>1, CalmTouches
  <2> QED BY <2>1, <2>2, <2>3, TouchesMore
<1>7. ASSUME NEW k \in Keys
      PROVE  /\ View(e, k) = View(Heard(d, u), k)
             /\ ~About(u, k) => View(e, k) = View(d, k)
  <2>1. View(e, k) = View(f, k)
    BY <1>2, <1>4, AlikeViews
  <2>2. ~About(u, k) => View(Heard(d, u), k) = View(d, k)
    BY <1>2, HeardView
  <2> QED BY <1>2, <2>1, <2>2
<1>8. ring \o direct \in Seq(Update)
  BY ConcatProperties
<1> QED BY <1>3, <1>5, <1>6, <1>7, <1>8

(* From whom a survivor gets an update.                                    *)
LEMMA UpdateComes ==
    ASSUME TypeInv, NEW l \in Servers, Bereft(l), NEW s \in Survivors, NEW q \in Servers,
           wire[q][s] # <<>>, IsUpdate(Head(wire[q][s]))
    PROVE  \/ q = l /\ s = Follower(l)
           \/ q \in Survivors /\ s = Follower(q) /\ q # s
<1>1. s \in Servers /\ s # l
  BY OneChief
<1>2. wire[q][s] \in Seq(Fit(q, s, l))
  BY DEF Bereft, Mail
<1>3. Head(wire[q][s]) \in Fit(q, s, l)
  <2>1. PICK K : K = Fit(q, s, l)
    OBVIOUS
  <2>2. PICK z : z = wire[q][s]
    OBVIOUS
  <2>3. Head(z) \in K
    BY <1>2, <2>1, <2>2, FirstOf
  <2> QED BY <2>1, <2>2, <2>3
<1>4. \/ q = l /\ s = Follower(l)
      \/ q \in Survivors /\ s = NextOf(q)
  BY <1>3 DEF Fit
<1>5. q \in Survivors /\ s = NextOf(q) => s = Follower(q) /\ q # s
  <2>1. q \in Survivors => NextOf(q) = l \/ NextOf(q) = Follower(q)
    BY NextLeft
  <2> QED BY <1>1, <2>1, FollowerIs
<1> QED BY <1>4, <1>5

(* What a survivor is sent, and sends on, leaves the ring as it is.        *)
LEMMA ReceiveChained ==
    ASSUME TypeInv, NEW l \in Servers, Orphans(l), NEW s \in Survivors, NEW q \in Servers,
           q \in server_peers[s], wire[q][s] # <<>>,
           NEW u \in Update, u = Head(wire[q][s]),
           NEW w \in Wires, ButFor(w, wire, q, s, Tail(wire[q][s])),
           UNCHANGED <<state, server_peers, leader>>,
           NEW e \in Tables, SameButQueue(Updated(tables[s], u), e),
           NEW direct \in Seq(Update), Quiet(direct),
           tables' = [tables EXCEPT ![s] = e], Sent(s, w, <<u>>, direct)
    PROVE  \A p \in Survivors' : Chained(p, l)'
<1>1. /\ Survivors' = Survivors
      /\ \A p : Follower(p)' = Follower(p)
      /\ \A p : NextOf(p)' = NextOf(p) /\ (Leads(p)' <=> Leads(p))
  BY RingStays DEF Alive, NextOf, Leads
<1>2. Bereft(l) /\ s \in Servers /\ s # l /\ l \notin Survivors
  BY OneChief DEF Orphans, Survivors
<1>3. tables \in [Servers -> Tables] /\ wire \in Wires
  BY DEF TypeInv, TypeOK, Wires
<1>a. PICK d \in Tables : d = tables[s]
  BY <1>2, <1>3
<1>k. PICK lines : lines = <<u>> \o direct
  OBVIOUS
<1>b. /\ lines \in Seq(Update)
      /\ Says(d, lines, e) /\ \A k : Touches(lines, k) <=> About(u, k)
      /\ \A k \in Keys : /\ View(e, k) = View(Heard(d, u), k)
                         /\ ~About(u, k) => View(e, k) = View(d, k)
  <2>1. SameButQueue(Updated(d, u), e)
    BY <1>a
  <2> QED BY <1>k, <2>1, UpdateTold
<1>c. lines \in Seq(Line) /\ u \in Line /\ IsUpdate(u)
  <2>1. u \in Line
    BY DEF Line
  <2>2. IsUpdate(u)
    BY <2>1, LineKinds
  <2>3. lines \in Seq(Line)
    BY <1>b DEF Line
  <2> QED BY <2>1, <2>2, <2>3
<1>d. \/ q = l /\ s = Follower(l)
      \/ q \in Survivors /\ s = Follower(q) /\ q # s
  BY <1>2, <1>c, UpdateComes
<1>e. q # s
  BY <1>2, <1>d
<1>f. \A a, b \in Servers : w[a][b] = IF a = q /\ b = s THEN Tail(wire[q][s]) ELSE wire[a][b]
  BY DEF ButFor
<1>g. wire[q][s] \in Seq(Line)
  BY <1>2, <1>3 DEF Wires
<1>h. /\ \A a, b \in Servers : a # s => wire'[a][b] = w[a][b]
      /\ \A b \in Servers : \A k : Touches(w[s][b], k) => Touches(wire'[s][b], k)
      /\ NextOf(s) = Follower(s) /\ Follower(s) # None /\ ~Leads(Follower(s)) =>
            wire'[s][Follower(s)] = w[s][Follower(s)] \o lines
  <2>1. PICK ring \in Seq(Update) : ring = <<u>>
    BY OneLine
  <2>2. Sent(s, w, ring, direct) /\ lines = ring \o direct
    BY <1>k, <2>1
  <2> QED BY <1>2, <2>2, SentAll
<1>i. /\ tables'[s] = e /\ \A t \in Servers : t # s => tables'[t] = tables[t]
  BY <1>2, <1>3
<1>j. ASSUME NEW a \in Servers, NEW b \in Servers, NEW k,
             ~Touches(wire'[a][b], k), a # q \/ ~About(u, k)
      PROVE  ~Touches(wire[a][b], k)
  <2>1. ~Touches(w[a][b], k)
    BY <1>h, <1>j
  <2>2. CASE a = q /\ b = s
    <3>1. ~Touches(Tail(wire[q][s]), k)
      BY <1>f, <2>1, <2>2
    <3> QED BY <1>g, <1>j, <2>2, <3>1, TouchesTaken
  <2>3. CASE ~(a = q /\ b = s)
    BY <1>f, <2>1, <2>3
  <2> QED BY <2>2, <2>3
<1> SUFFICES ASSUME NEW p \in Survivors, NextOf(p) = Follower(p), Follower(p) # None,
                    ~Leads(Follower(p))
             PROVE  \E X \in SUBSET Survivors : Feeds(X, p, l)' /\ Behind(p, X)'
  BY <1>1 DEF Chained
<1>4. PICK X \in SUBSET Survivors : Feeds(X, p, l) /\ Behind(p, X)
  BY DEF Orphans, Chained
<1>5. Feeds(X, p, l)'
  BY <1>1, <1>2, <1>4, FeedsStay DEF Alive
<1>6. PICK n : n = Follower(p)
  OBVIOUS
<1>7. p \in Servers /\ n \in Survivors /\ n \in Servers /\ n # p
  <2>1. p \in Servers
    BY DEF Survivors
  <2> QED BY <1>6, <2>1, FollowerIs
<1>8. ASSUME NEW k \in Keys, Untouched(X, k)'
      PROVE  View(Made(tables'[n], wire'[p][n]), k) = View(tables'[p], k)
  <2>1. \A r \in X : ~Touches(wire'[r][Follower(r)], k)
    BY <1>1, <1>8 DEF Untouched, Touches
  <2>2. ASSUME q \notin X \/ ~About(u, k) PROVE Untouched(X, k)
    <3> SUFFICES ASSUME NEW r \in X PROVE ~Touches(wire[r][Follower(r)], k)
      BY DEF Untouched
    <3>1. r \in Servers /\ Follower(r) \in Servers
      BY <1>2, <1>4, FedBy DEF Survivors
    <3>2. r # q \/ ~About(u, k)
      BY <2>2
    <3> QED BY <1>j, <2>1, <3>1, <3>2
  <2>3. ASSUME Untouched(X, k)
        PROVE  View(Made(tables[n], wire[p][n]), k) = View(tables[p], k)
    BY <1>4, <1>6, <2>3 DEF Behind
  <2>4. ASSUME s \in X, ~Leads(Follower(s)) PROVE ~About(u, k)
    <3>1. NextOf(s) = Follower(s) /\ Follower(s) # None /\ Follower(s) \in Survivors
      BY <1>2, <1>4, <2>4, FedBy
    <3>2. Follower(s) \in Servers
      BY <3>1 DEF Survivors
    <3>3. wire'[s][Follower(s)] = w[s][Follower(s)] \o lines
      BY <1>h, <2>4, <3>1
    <3>4. w[s][Follower(s)] \in Seq(Line)
      BY <1>2, <3>2 DEF Wires
    <3>5. ~Touches(wire'[s][Follower(s)], k)
      BY <2>1, <2>4
    <3>6. ~Touches(lines, k)
      BY <1>c, <3>3, <3>4, <3>5, TouchesMore
    <3> QED BY <1>b, <3>6
  <2>5. CASE p = s
    <3>1. wire'[s][n] = wire[s][n] \o lines
      <4>1. wire'[s][n] = w[s][n] \o lines
        BY <1>6, <1>h, <2>5
      <4>2. w[s][n] = wire[s][n]
        BY <1>2, <1>7, <1>f, <2>5
      <4> QED BY <4>1, <4>2
    <3>2. tables'[n] = tables[n] /\ tables[n] \in Tables /\ wire[s][n] \in Seq(Line)
      BY <1>2, <1>3, <1>7, <1>i, <2>5 DEF Wires
    <3>3. PICK t : t = Made(tables[n], wire[s][n])
      OBVIOUS
    <3>4. t \in Tables
      BY <3>2, <3>3, MadeView
    <3>5. Touches(lines, k) \/ View(t, k) = View(d, k)
      <4>1. CASE About(u, k)
        BY <1>b, <4>1
      <4>2. CASE ~About(u, k)
        <5>1. View(Made(tables[n], wire[p][n]), k) = View(tables[p], k)
          BY <2>2, <2>3, <4>2
        <5> QED BY <1>a, <2>5, <3>3, <5>1
      <4> QED BY <4>1, <4>2
    <3>6. View(Made(t, lines), k) = View(e, k)
      BY <1>b, <3>4, <3>5, SaysView
    <3>7. Made(tables[n], wire[s][n] \o lines) = Made(t, lines)
      BY <1>c, <3>2, <3>3, MadeConcat
    <3> QED BY <1>i, <2>5, <3>1, <3>2, <3>6, <3>7
  <2>6. CASE p # s /\ n # s
    <3>1. wire'[p][n] = wire[p][n] /\ tables'[p] = tables[p] /\ tables'[n] = tables[n]
      BY <1>7, <1>f, <1>h, <1>i, <2>6
    <3>2. Untouched(X, k)
      <4>1. CASE q \notin X
        BY <2>2, <4>1
      <4>2. CASE q \in X
        <5>1. /\ q \in Survivors /\ ~Leads(Follower(Follower(q)))
              /\ Follower(q) = p \/ Follower(q) \in X
          BY <1>2, <1>4, <4>2, FedBy
        <5>2. s = Follower(q)
          BY <1>2, <1>d, <5>1
        <5>3. s \in X /\ ~Leads(Follower(s))
          BY <2>6, <5>1, <5>2
        <5> QED BY <2>2, <2>4, <5>3
      <4> QED BY <4>1, <4>2
    <3> QED BY <2>3, <3>1, <3>2
  <2>7. CASE n = s
    <3>1. p # s /\ tables'[p] = tables[p] /\ tables'[n] = e /\ wire'[p][n] = w[p][n]
      BY <1>7, <1>h, <1>i, <2>7
    <3>2. CASE q = p
      <4>1. q \notin X
        BY <1>4, <3>2 DEF Feeds
      <4>2. View(Made(d, wire[q][s]), k) = View(tables[p], k)
        <5>1. View(Made(tables[n], wire[p][n]), k) = View(tables[p], k)
          BY <2>2, <2>3, <4>1
        <5>2. tables[n] = d /\ wire[p][n] = wire[q][s]
          BY <1>a, <2>7, <3>2
        <5> QED BY <5>1, <5>2
      <4>z. PICK z \in Seq(Line) : z = wire[q][s]
        BY <1>g
      <4>3. PICK rest \in Seq(Line) : rest = Tail(wire[q][s])
        BY <4>z, FirstOf
      <4>4. Made(d, wire[q][s]) = Made(Heard(d, u), rest)
        BY <1>g, <4>3, MadeTaken
      <4>5. Heard(d, u) \in Tables
        BY <1>c, HeardAlike DEF Alike
      <4>6. View(Made(e, rest), k) = View(Made(Heard(d, u), rest), k)
        BY <1>b, <4>5, ViewThrough
      <4>7. w[p][n] = rest
        BY <1>2, <1>f, <2>7, <3>2, <4>3
      <4> QED BY <3>1, <4>2, <4>4, <4>6, <4>7
    <3>3. CASE q = l
      <4>1. s = Follower(l)
        BY <1>2, <1>d, <3>3
      <4>2. IsLast(p, l)
        BY <1>2, <1>6, <2>7, <4>1, LastBefore DEF Bereft
      <4>3. s \in X
        BY <1>4, <1>6, <2>7, <3>3, <4>2 DEF Feeds
      <4>4. ~Leads(Follower(s))
        <5>1. Follower(s) \in Survivors
          BY <1>2, <1>4, <4>3, FedBy
        <5> QED BY <1>2, <3>3, <5>1, OneChief
      <4>5. ~About(u, k)
        BY <2>4, <4>3, <4>4
      <4>6. View(Made(d, wire[p][s]), k) = View(tables[p], k)
        BY <1>a, <2>2, <2>3, <2>7, <4>5
      <4>7. wire[p][s] \in Seq(Line) /\ w[p][s] = wire[p][s]
        BY <1>2, <1>3, <1>7, <1>f, <3>3 DEF Wires
      <4>8. View(Made(e, wire[p][s]), k) = View(Made(d, wire[p][s]), k)
        BY <1>b, <4>5, <4>7, ViewThrough
      <4> QED BY <2>7, <3>1, <4>6, <4>7, <4>8
    <3>4. CASE q # p /\ q # l
      <4>1. q \in Survivors /\ Follower(q) = s
        BY <1>d, <3>4
      <4> QED BY <1>6, <2>7, <3>4, <4>1, FollowerOne
    <3> QED BY <3>2, <3>3, <3>4
  <2> QED BY <2>5, <2>6, <2>7
<1>9. Behind(p, X)'
  <2>1. \A k \in Keys : Untouched(X, k)' =>
           View(Made(tables'[n], wire'[p][n]), k) = View(tables'[p], k)
    BY <1>8
  <2> QED BY <1>1, <1>6, <2>1 DEF Behind
<1> QED BY <1>4, <1>5, <1>9

(* The lines v do to the tables what the lines w do.                       *)
SameNews(v, w) ==
    /\ \A k : Touches(v, k) <=> Touches(w, k)
    /\ \A t \in Tables : Made(t, v) = Made(t, w)

(* Nothing that changes no table, and tells nothing, changes the ring.     *)
LEMMA QuietChained ==
    ASSUME TypeInv, NEW l \in Servers, Orphans(l),
           \A s \in Servers : Alive(s)' <=> Alive(s),
           server_peers' = server_peers, tables' = tables,
           \A s \in Survivors : Leads(s)' <=> Leads(s),
           \A a, b \in Servers : SameNews(wire'[a][b], wire[a][b])
    PROVE  \A p \in Survivors' : Chained(p, l)'
<1>1. /\ Survivors' = Survivors
      /\ \A p : Follower(p)' = Follower(p)
      /\ \A p : NextOf(p)' = NextOf(p)
  BY RingStays DEF NextOf
<1>2. Bereft(l) /\ tables \in [Servers -> Tables]
  BY DEF Orphans, TypeInv, TypeOK
<1>a. ASSUME NEW p \in Survivors, Follower(p) # None, ~Leads(Follower(p))'
      PROVE  ~Leads(Follower(p)) /\ Follower(p) \in Servers /\ p \in Servers
  <2>1. PICK n \in Survivors : n = Follower(p)
    <3>1. p \in Servers
      BY DEF Survivors
    <3> QED BY <1>a, <3>1, FollowerIs
  <2>2. ~Leads(n)'
    BY <1>1, <1>a, <2>1 DEF Leads
  <2>3. ~Leads(n)
    BY <2>2
  <2>4. p \in Servers /\ n \in Servers
    BY DEF Survivors
  <2> QED BY <2>1, <2>3, <2>4
<1> SUFFICES ASSUME NEW p \in Survivors, NextOf(p) = Follower(p), Follower(p) # None,
                    ~Leads(Follower(p)), Follower(p) \in Servers, p \in Servers
             PROVE  \E X \in SUBSET Survivors : Feeds(X, p, l)' /\ Behind(p, X)'
  BY <1>1, <1>a DEF Chained
<1>3. PICK X \in SUBSET Survivors : Feeds(X, p, l) /\ Behind(p, X)
  BY DEF Orphans, Chained
<1>4. Feeds(X, p, l)'
  BY <1>1, <1>2, <1>3, FeedsStay
<1>5. ASSUME NEW k \in Keys, Untouched(X, k)' PROVE Untouched(X, k)
  <2> SUFFICES ASSUME NEW r \in X PROVE ~Touches(wire[r][Follower(r)], k)
    BY DEF Untouched
  <2>1. r \in Servers /\ Follower(r) \in Servers
    BY <1>2, <1>3, FedBy DEF Survivors
  <2>2. ~Touches(wire'[r][Follower(r)], k)
    BY <1>1, <1>5 DEF Untouched, Touches
  <2> QED BY <2>1, <2>2 DEF SameNews
<1>6. PICK n : n = Follower(p)
  OBVIOUS
<1>7. Made(tables[n], wire'[p][n]) = Made(tables[n], wire[p][n])
  BY <1>2, <1>6 DEF SameNews
<1>8. ASSUME NEW k \in Keys, Untouched(X, k)'
      PROVE  View(Made(tables'[n], wire'[p][n]), k) = View(tables'[p], k)
  <2>1. View(Made(tables[n], wire[p][n]), k) = View(tables[p], k)
    BY <1>3, <1>5, <1>6, <1>8 DEF Behind
  <2> QED BY <1>7, <2>1
<1>9. Behind(p, X)'
  <2>1. \A k \in Keys : Untouched(X, k)' =>
           View(Made(tables'[n], wire'[p][n]), k) = View(tables'[p], k)
    BY <1>8
  <2> QED BY <1>1, <1>6, <2>1 DEF Behind
<1> QED BY <1>3, <1>4, <1>9

(* A line that is no update can go,                                        *)
LEMMA NewsGone ==
    ASSUME NEW q \in Seq(Line), q # <<>>, ~IsUpdate(Head(q))
    PROVE  SameNews(Tail(q), q)
<1>1. Head(q) \in Line
  BY FirstOf
<1>2. \A k : ~About(Head(q), k)
  BY <1>1, LineKinds DEF About
<1>3. \A k : Touches(Tail(q), k) <=> Touches(q, k)
  BY <1>2, TouchesTaken
<1>4. \A t \in Tables : Made(t, Tail(q)) = Made(t, q)
  BY HeardNews
<1> QED BY <1>3, <1>4 DEF SameNews

(* or come.                                                                *)
LEMMA NewsCome ==
    ASSUME NEW q \in Seq(Line), NEW m \in Line, ~IsUpdate(m)
    PROVE  SameNews(Append(q, m), q)
<1>1. PICK z \in Seq(Line) : z = <<m>>
  BY OneLine
<1>2. Append(q, m) = q \o z
  BY <1>1, AppendIsConcat
<1>3. \A k : ~About(m, k)
  BY LineKinds DEF About
<1>4. \A k : Touches(q \o z, k) <=> Touches(q, k)
  BY <1>1, <1>3, TouchesMore, TouchesOne
<1>5. ASSUME NEW t \in Tables PROVE Made(t, q \o z) = Made(t, q)
  <2>1. PICK e : e = Made(t, q)
    OBVIOUS
  <2>2. Made(t, q \o z) = Made(e, z)
    BY <2>1, MadeConcat
  <2>3. Made(e, z) = e
    BY <1>1, MadeFew DEF Heard
  <2> QED BY <2>1, <2>2, <2>3
<1> QED BY <1>2, <1>4, <1>5 DEF SameNews

(* The lines that were no updates are the same ones still.                 *)
LEMMA NewsStay ==
    ASSUME NEW q
    PROVE  SameNews(q, q)
BY DEF SameNews

(* A line about the leader that is overtaken says the same.                *)
LEMMA NewsOvertaken ==
    ASSUME NEW q \in Seq(Line), Len(q) > 1, ~IsUpdate(q[1])
    PROVE  SameNews(<<q[2], q[1]>> \o SubSeq(q, 3, Len(q)), q)
<1>1. PICK x \in Line, y \in Line : x = q[1] /\ y = q[2]
  OBVIOUS
<1>2. PICK rest \in Seq(Line) : rest = SubSeq(q, 3, Len(q))
  <2>1. SubSeq(q, 3, Len(q)) \in Seq(Line)
    OBVIOUS
  <2> QED BY <2>1
<1>3. PICK a \in Seq(Line), b \in Seq(Line) : a = <<x>> /\ b = <<y>>
  BY OneLine
<1>4. q = a \o (b \o rest)
  <2>1. DOMAIN q = 1 .. Len(q) /\ Len(q) \in Nat
    OBVIOUS
  <2>2. b \o rest \in Seq(Line) /\ a \o (b \o rest) \in Seq(Line)
    BY ConcatProperties
  <2>3. /\ Len(a \o (b \o rest)) = Len(q)
        /\ \A i \in 1 .. Len(q) : (a \o (b \o rest))[i] = q[i]
    BY <1>1, <1>2, <1>3, <2>1
  <2> QED BY <2>2, <2>3, SeqEqual
<1>5. <<q[2], q[1]>> \o rest = b \o (a \o rest)
  <2>1. <<y, x>> = b \o a
    BY <1>3, TwoLines
  <2>2. (b \o a) \o rest = b \o (a \o rest)
    BY ConcatAssociative
  <2> QED BY <1>1, <2>1, <2>2
<1>6. a \o rest \in Seq(Line) /\ b \o rest \in Seq(Line)
  BY ConcatProperties
<1>7. ~IsUpdate(x) /\ \A k : ~Touches(a, k)
  <2>1. \A k : ~About(x, k)
    BY <1>1, LineKinds DEF About
  <2> QED BY <1>1, <1>3, <2>1, TouchesOne
<1>8. \A k : Touches(b \o (a \o rest), k) <=> Touches(a \o (b \o rest), k)
  BY <1>6, <1>7, TouchesMore
<1>9. ASSUME NEW t \in Tables PROVE Made(t, b \o (a \o rest)) = Made(t, a \o (b \o rest))
  <2>1. \A e : Made(e, a) = e
    BY <1>3, <1>7, MadeFew DEF Heard
  <2>2. ASSUME NEW e, NEW c \in Seq(Line) PROVE Made(e, a \o c) = Made(e, c)
    <3>1. Made(e, a \o c) = Made(Made(e, a), c)
      BY MadeConcat
    <3> QED BY <2>1, <3>1
  <2>3. Made(t, b \o (a \o rest)) = Made(Made(t, b), rest)
    <3>1. Made(t, b \o (a \o rest)) = Made(Made(t, b), a \o rest)
      <4>1. PICK c \in Seq(Line) : c = a \o rest
        BY <1>6
      <4>2. Made(t, b \o c) = Made(Made(t, b), c)
        BY MadeConcat
      <4> QED BY <4>1, <4>2
    <3> QED BY <2>2, <3>1
  <2>4. Made(t, a \o (b \o rest)) = Made(t, b \o rest)
    BY <1>6, <2>2
  <2> QED BY <2>3, <2>4, MadeConcat
<1> QED BY <1>2, <1>4, <1>5, <1>8, <1>9 DEF SameNews

(* A survivor that hears of the loss sends on to its follower, which may   *)
(* not have been told what the others were.                                *)
LEMMA DisconnectChained ==
    ASSUME TypeInv, NEW l \in Servers, Orphans(l), NEW s \in Survivors, l \in server_peers[s],
           UNCHANGED <<state, leader, tables, wire>>,
           server_peers' = [server_peers EXCEPT ![s] = @ \ {l}]
    PROVE  \A p \in Survivors' : Chained(p, l)'
<1>1. /\ Survivors' = Survivors
      /\ \A p : Others(p)' = Others(p) /\ Follower(p)' = Follower(p)
      /\ \A p : IsLast(p, l)' <=> IsLast(p, l)
      /\ \A p : Leads(p)' <=> Leads(p)
      /\ \A s1 \in Servers : Alive(s1)' <=> Alive(s1)
  BY RingStays DEF Alive, Leads
<1>2. Bereft(l) /\ s \in Servers /\ s # l /\ ~Alive(l)
  BY OneChief DEF Orphans, Bereft
<1>3. /\ tables \in [Servers -> Tables] /\ wire \in Wires
      /\ server_peers \in [Servers -> SUBSET Servers]
  BY DEF TypeInv, TypeOK, Wires
<1>4. \A h \in Survivors : ~Leads(h)
  BY <1>2, OneChief
<1>5. \A t \in Servers : server_peers'[t] \subseteq server_peers[t]
  BY <1>2, <1>3
<1>6. \A t \in Servers \ {s} : NextOf(t)' = NextOf(t)
  BY <1>3 DEF NextOf
<1> SUFFICES ASSUME NEW p \in Survivors, NextOf(p)' = Follower(p), Follower(p) # None
             PROVE  \E X \in SUBSET Survivors : Feeds(X, p, l)' /\ Behind(p, X)'
  BY <1>1 DEF Chained
<1>7. p \in Servers /\ Follower(p) \in Survivors /\ Follower(p) # p /\ Follower(p) \in Servers
  <2>1. p \in Servers
    BY DEF Survivors
  <2> QED BY <2>1, FollowerIs
<1>8. ASSUME NEW t \in Survivors, NextOf(t) = Follower(t), Follower(t) # None
      PROVE  \E X \in SUBSET Survivors : Feeds(X, t, l) /\ Behind(t, X)
  <2>1. Follower(t) \in Survivors
    <3>1. t \in Servers
      BY DEF Survivors
    <3> QED BY <1>8, <3>1, FollowerIs
  <2>2. ~Leads(Follower(t))
    BY <1>4, <2>1
  <2> QED BY <1>8, <2>2 DEF Orphans, Chained
<1>9. CASE NextOf(p) = Follower(p)
  <2>1. PICK X \in SUBSET Survivors : Feeds(X, p, l) /\ Behind(p, X)
    BY <1>8, <1>9
  <2>2. Feeds(X, p, l)'
    BY <1>1, <1>2, <1>5, <2>1, FeedsStay
  <2>3. Behind(p, X)'
    <3>1. \A k : Untouched(X, k)' <=> Untouched(X, k)
      BY <1>1 DEF Untouched, Touches
    <3> QED BY <1>1, <2>1, <3>1 DEF Behind
  <2> QED BY <2>1, <2>2, <2>3
<1>10. CASE NextOf(p) # Follower(p)
  <2>1. p = s /\ IsLast(s, l)
    BY <1>2, <1>6, <1>7, <1>10, NextLeft
  <2>2. PICK X \in SUBSET Survivors : X = Others(s)
    BY DEF Others
  <2>3. Feeds(X, s, l)'
    <3>1. X \subseteq Survivors \ {s} /\ Follower(s) \in X
      BY <1>7, <2>1, <2>2 DEF Others
    <3>2. ASSUME NEW r \in X
          PROVE  /\ Follower(r)' = s \/ Follower(r)' \in X
                 /\ ~Leads(Follower(Follower(r)))'
      <4>1. r \in Survivors /\ r # s
        BY <3>1
      <4>2. PICK n \in Survivors : n = Follower(r) /\ n # r
        BY <4>1, FollowerOrder
      <4>3. Follower(n) \in Survivors
        BY <4>1, <4>2, FollowerOrder
      <4>4. n = s \/ n \in X
        BY <2>2, <4>2 DEF Others
      <4>5. ~Leads(Follower(n))
        BY <1>4, <4>3
      <4>6. Follower(r)' = n /\ Follower(Follower(r))' = Follower(n)
        BY <1>1, <4>2
      <4>7. ~Leads(Follower(Follower(r)))'
        BY <4>5, <4>6 DEF Leads
      <4> QED BY <4>4, <4>6, <4>7
    <3> QED BY <1>1, <2>1, <3>1, <3>2 DEF Feeds
  <2>4. ASSUME NEW k \in Keys, Untouched(X, k)
        PROVE  View(Made(tables[Follower(s)], wire[s][Follower(s)]), k) = View(tables[s], k)
    <3>1. PICK f : f = [t \in Survivors |-> View(tables[t], k)]
      OBVIOUS
    <3>2. ASSUME NEW t \in Survivors, t # s, Follower(t) # None
          PROVE  f[Follower(t)] = f[t]
      <4>1. PICK n : n = Follower(t)
        OBVIOUS
      <4>2. t \in Servers /\ n \in Survivors /\ n \in Servers /\ t \in X
        <5>1. t \in Servers /\ t \in X
          BY <2>2, <3>2 DEF Survivors, Others
        <5> QED BY <3>2, <4>1, <5>1, FollowerIs
      <4>3. ~IsLast(t, l)
        BY <1>2, <2>1, <3>2, LastOne
      <4>4. PICK Y \in SUBSET Survivors : Feeds(Y, t, l) /\ Behind(t, Y)
        BY <1>2, <1>8, <3>2, <4>3, NextLeft
      <4>5. Y = {}
        BY <4>3, <4>4 DEF Feeds
      <4>6. View(Made(tables[n], wire[t][n]), k) = View(tables[t], k)
        BY <4>1, <4>4, <4>5 DEF Behind, Untouched
      <4>7. ~Touches(wire[t][n], k)
        BY <2>4, <4>1, <4>2 DEF Untouched
      <4>8. View(Made(tables[n], wire[t][n]), k) = View(tables[n], k)
        <5>1. tables[n] \in Tables /\ wire[t][n] \in Seq(Line)
          BY <1>3, <4>2 DEF Wires
        <5> QED BY <4>7, <5>1, MadeView
      <4> QED BY <3>1, <4>1, <4>2, <4>6, <4>8
    <3>3. \A t \in Survivors : f[t] = f[s]
      BY <3>2, OneRound
    <3>4. PICK n : n = Follower(s)
      OBVIOUS
    <3>5. n \in Survivors /\ n \in Servers
      BY <1>7, <2>1, <3>4
    <3>6. View(tables[n], k) = View(tables[s], k)
      BY <3>1, <3>3, <3>5
    <3>7. tables[n] \in Tables /\ wire[s][n] \in Seq(Line)
      BY <1>2, <1>3, <3>5 DEF Wires
    <3>8. wire[s][n] \in Seq(Fit(s, n, l))
      BY <1>2, <3>5 DEF Bereft, Mail
    <3>9. ~Touches(wire[s][n], k)
      <4>1. PICK K : K = Fit(s, n, l)
        OBVIOUS
      <4>2. \A m \in K : ~IsUpdate(m) /\ m \in Line
        BY <1>2, <1>10, <2>1, <3>4, <4>1 DEF Fit
      <4>3. PICK z : z = wire[s][n]
        OBVIOUS
      <4>4. \A i \in DOMAIN z : z[i] \in K
        BY <3>8, <4>1, <4>3
      <4>5. \A i \in DOMAIN z : Calm(z[i])
        BY <4>2, <4>4 DEF Calm
      <4> QED BY <3>7, <4>3, <4>5, CalmTouches
    <3>10. View(Made(tables[n], wire[s][n]), k) = View(tables[n], k)
      BY <3>7, <3>9, MadeView
    <3> QED BY <3>4, <3>6, <3>10
  <2>5. Behind(s, X)'
    <3>1. \A k : Untouched(X, k)' <=> Untouched(X, k)
      BY <1>1 DEF Untouched, Touches
    <3>2. \A k \in Keys : Untouched(X, k)' =>
             View(Made(tables'[Follower(s)], wire'[s][Follower(s)]), k) = View(tables'[s], k)
      BY <2>4, <3>1
    <3> QED BY <1>1, <3>2 DEF Behind
  <2> QED BY <2>1, <2>3, <2>5
<1> QED BY <1>9, <1>10

(* When the highest survivor takes over, and what the others were told has *)
(* come to them, only updates on the way from or to it will reach the last *)
(* one before l.                                                           *)
LEMMA TakeOverChained ==
    ASSUME TypeInv, NEW l \in Servers, Orphans(l), NEW h \in Survivors,
           \A t \in Survivors : ~Leads(t) /\ server_peers[t] = Others(t) /\ t <= h,
           \A a, b \in Survivors \ {h} : \A k : ~Touches(wire[a][b], k),
           UNCHANGED <<state, server_peers, tables>>,
           leader' = [leader EXCEPT ![h] = h],
           \A a, b \in Servers : SameNews(wire'[a][b], wire[a][b])
    PROVE  \A p \in Survivors' : Chained(p, l)'
<1>1. /\ Survivors' = Survivors
      /\ \A p : Follower(p)' = Follower(p)
      /\ \A p : IsLast(p, l)' <=> IsLast(p, l)
  BY RingStays DEF Alive
<1>2. Bereft(l) /\ h \in Servers /\ ~Alive(l)
  BY OneChief DEF Orphans, Bereft
<1>3. /\ tables \in [Servers -> Tables] /\ wire \in Wires
      /\ leader \in [Servers -> Servers \cup {None}]
  BY DEF TypeInv, TypeOK, Wires
<1>4. \A t \in Survivors : Leads(t)' <=> t = h
  BY <1>2, <1>3 DEF Leads, Survivors
<1>5. \A t \in Survivors : t \in Nat /\ t \in Servers
  BY Ordered DEF Survivors
<1>6. \A t \in Survivors : NextOf(t) = Follower(t) /\ l \notin server_peers[t]
  BY <1>2, NextLeft
<1>7. ASSUME NEW t \in Survivors, NEW u \in Survivors, t # u
      PROVE  /\ Follower(t) \in Survivors /\ Follower(t) # t /\ Follower(t) # None
             /\ t < u => Follower(t) <= u
             /\ t = h => Follower(t) <= u
  <2>1. /\ Follower(t) \in Survivors /\ Follower(t) # t
        /\ t < u => Follower(t) <= u
        /\ (\A r \in Survivors : r <= t) => Follower(t) <= u
    BY <1>7, FollowerOrder
  <2>2. Follower(t) # None
    BY <1>5, <2>1, DataRingAssumption
  <2> QED BY <2>1, <2>2
<1> SUFFICES ASSUME NEW p \in Survivors, Follower(p) # None, ~Leads(Follower(p))'
             PROVE  \E X \in SUBSET Survivors : Feeds(X, p, l)' /\ Behind(p, X)'
  BY <1>1 DEF Chained
<1>8. Follower(p) \in Survivors /\ Follower(p) # p /\ Follower(p) # h
  <2>1. Follower(p) \in Survivors /\ Follower(p) # p
    BY <1>5, FollowerIs
  <2>2. PICK n \in Survivors : n = Follower(p)
    BY <2>1
  <2>3. ~Leads(n)'
    BY <1>1, <2>2 DEF Leads
  <2> QED BY <1>4, <2>1, <2>2, <2>3
<1>9. PICK X \in SUBSET Survivors : Feeds(X, p, l) /\ Behind(p, X)
  <2>1. ~Leads(Follower(p)) /\ NextOf(p) = Follower(p)
    BY <1>6, <1>8
  <2> QED BY <2>1 DEF Orphans, Chained
(* Any set will do that has those of X that send to h, and h if it has h.  *)
<1>10. ASSUME NEW Y \in SUBSET Survivors, p \notin Y, Y # {} => IsLast(p, l),
              \A r \in Y : /\ Follower(r) = p \/ Follower(r) \in Y
                           /\ Follower(Follower(r)) # h,
              \A r \in X : r = h \/ Follower(r) = h => r \in Y
       PROVE  Feeds(Y, p, l)' /\ Behind(p, Y)'
  <2>1. Feeds(Y, p, l)'
    <3>1. ASSUME NEW r \in Y
          PROVE  /\ Follower(r)' = p \/ Follower(r)' \in Y
                 /\ ~Leads(Follower(Follower(r)))'
      <4>1. PICK n \in Survivors : n = Follower(r)
        BY <1>10
      <4>2. n # r
        BY <1>5, <4>1, FollowerIs
      <4>3. PICK m \in Survivors : m = Follower(n) /\ m # h
        BY <1>7, <1>10, <4>1, <4>2
      <4>4. ~Leads(m)'
        BY <1>4, <4>3
      <4>5. Follower(r)' = n /\ Follower(Follower(r))' = m
        BY <1>1, <4>1, <4>3
      <4>6. ~Leads(Follower(Follower(r)))'
        BY <4>4, <4>5 DEF Leads
      <4> QED BY <1>10, <4>1, <4>5, <4>6
    <3>2. l \notin server_peers'[Follower(p)']
      BY <1>1, <1>6, <1>8
    <3> QED BY <1>1, <1>10, <3>1, <3>2 DEF Feeds
  <2>2. ASSUME NEW k \in Keys, Untouched(Y, k)' PROVE Untouched(X, k)
    <3> SUFFICES ASSUME NEW r \in X PROVE ~Touches(wire[r][Follower(r)], k)
      BY DEF Untouched
    <3>1. PICK n : n = Follower(r)
      OBVIOUS
    <3>2. r \in Survivors /\ n \in Survivors /\ r \in Servers /\ n \in Servers
      BY <1>2, <1>5, <1>9, <3>1, FedBy
    <3>3. CASE r = h \/ n = h
      <4>1. ~Touches(wire'[r][n], k)
        BY <1>1, <1>10, <2>2, <3>1, <3>3 DEF Untouched, Touches
      <4> QED BY <3>1, <3>2, <4>1 DEF SameNews
    <3>4. CASE r # h /\ n # h
      BY <3>1, <3>2, <3>4
    <3> QED BY <3>3, <3>4
  <2>3. PICK n : n = Follower(p)
    OBVIOUS
  <2>4. Made(tables[n], wire'[p][n]) = Made(tables[n], wire[p][n])
    BY <1>3, <1>5, <1>8, <2>3 DEF SameNews
  <2>5. ASSUME NEW k \in Keys, Untouched(Y, k)'
        PROVE  View(Made(tables'[n], wire'[p][n]), k) = View(tables'[p], k)
    <3>1. View(Made(tables[n], wire[p][n]), k) = View(tables[p], k)
      BY <1>9, <2>2, <2>3, <2>5 DEF Behind
    <3> QED BY <2>4, <3>1
  <2>6. Behind(p, Y)'
    <3>1. \A k \in Keys : Untouched(Y, k)' =>
             View(Made(tables'[n], wire'[p][n]), k) = View(tables'[p], k)
      BY <2>5
    <3> QED BY <1>1, <2>3, <3>1 DEF Behind
  <2> QED BY <2>1, <2>6
<1>11. CASE ~IsLast(p, l)
  <2>1. PICK Y \in SUBSET Survivors : Y = {}
    OBVIOUS
  <2>2. X = {}
    BY <1>9, <1>11 DEF Feeds
  <2>3. Feeds(Y, p, l)' /\ Behind(p, Y)'
    BY <1>10, <2>1, <2>2
  <2> QED BY <2>3
<1>12. CASE IsLast(p, l) /\ p = h
  <2>1. PICK Y \in SUBSET Survivors : Y = {r \in Survivors : Follower(r) = h}
    OBVIOUS
  <2>2. p \notin Y
    BY <1>8, <1>12, <2>1
  <2>3. \A r \in Y : Follower(r) = p /\ Follower(Follower(r)) # h
    BY <1>8, <1>12, <2>1
  <2>4. \A r \in X : r # h
    BY <1>9, <1>12 DEF Feeds
  <2>5. \A r \in X : r = h \/ Follower(r) = h => r \in Y
    BY <1>9, <2>1, <2>4
  <2>6. Feeds(Y, p, l)' /\ Behind(p, Y)'
    BY <1>10, <1>12, <2>2, <2>3, <2>5
  <2> QED BY <2>6
<1>13. CASE IsLast(p, l) /\ p # h
  <2>1. PICK Y \in SUBSET Survivors :
           Y = {r \in Survivors : Follower(r) = h \/ r = h \/ r < p}
    OBVIOUS
  <2>2. p \in Nat /\ h \in Nat /\ p < h
    BY <1>5, <1>13
  <2>3. p \notin Y
    BY <1>8, <1>13, <2>1, <2>2
  <2>4. ASSUME NEW r \in Survivors, r = h \/ r < p
        PROVE  /\ Follower(r) = p \/ Follower(r) \in Y
               /\ Follower(Follower(r)) # h
    <3>1. r # p /\ r \in Nat
      BY <1>5, <1>13, <2>2, <2>4
    <3>2. PICK n \in Survivors : n = Follower(r) /\ n <= p /\ n # r
      BY <1>7, <2>4, <3>1
    <3>3. CASE n = p
      BY <1>8, <3>2, <3>3
    <3>4. CASE n # p
      <4>1. n < p /\ n \in Nat
        BY <1>5, <2>2, <3>2, <3>4
      <4>2. Follower(n) <= p /\ Follower(n) \in Survivors
        BY <1>7, <3>4, <4>1
      <4>3. Follower(n) # h
        BY <1>5, <2>2, <4>2
      <4> QED BY <2>1, <3>2, <4>1, <4>3
    <3> QED BY <3>3, <3>4
  <2>5. ASSUME NEW r \in Survivors, Follower(r) = h
        PROVE  /\ Follower(r) = p \/ Follower(r) \in Y
               /\ Follower(Follower(r)) # h
    <3>1. h \in Y
      BY <2>1
    <3>2. Follower(h) # h
      BY <1>7, <1>13
    <3> QED BY <2>5, <3>1, <3>2
  <2>6. \A r \in Y : /\ Follower(r) = p \/ Follower(r) \in Y
                     /\ Follower(Follower(r)) # h
    BY <2>1, <2>4, <2>5
  <2>7. \A r \in X : r = h \/ Follower(r) = h => r \in Y
    BY <2>1
  <2>8. Feeds(Y, p, l)' /\ Behind(p, Y)'
    BY <1>10, <1>13, <2>3, <2>6, <2>7
  <2> QED BY <2>8
<1> QED BY <1>11, <1>12, <1>13

----------------------------------------------------------------------------
(* What is known of each other.                                            *)

(* While nobody goes, comes, forgets another or begins to lead, the same   *)
(* lines fit as before, and l is mourned as before.                        *)
LEMMA CalmBereft ==
    ASSUME NEW l \in Servers, Bereft(l), \A t \in Servers : Alive(t)' <=> Alive(t),
           UNCHANGED <<server_peers, starting>>,
           \A t \in Survivors : Leads(t)' <=> Leads(t),
           \A t \in Survivors : \/ leader'[t] = leader[t]
                                \/ leader'[t] \in Survivors /\ Leads(leader'[t]),
           \A t \in Survivors : connected'[t] # {} \/ state'[t] = "panicked" =>
                                connected[t] # {} \/ state[t] = "panicked" \/ Leads(t),
           \A m \in due' \ due : m.type = "FindRider" => m.at \in Survivors /\ Leads(m.at),
           \A t \in Survivors : wire[l][t] = <<>> => wire'[l][t] = <<>>,
           \A a \in Servers, b \in Survivors : wire'[a][b] \in Seq(Fit(a, b, l))
    PROVE  Bereft(l)'
<1>1. /\ Survivors' = Survivors
      /\ \A p : Others(p)' = Others(p) /\ Follower(p)' = Follower(p)
      /\ \A p : NextOf(p)' = NextOf(p)
  BY RingStays DEF NextOf
<1>2. ASSUME NEW h \in Survivors, Chief(h) PROVE Chief(h)'
  BY <1>1, <1>2 DEF Chief
<1>3. ASSUME NEW t \in Survivors PROVE Heir(t, l)'
  <2>1. Heir(t, l)
    BY DEF Bereft
  <2>2. PICK g : g = leader'[t]
    OBVIOUS
  <2>3. g = l \/ Chief(g)'
    <3>1. CASE g = leader[t]
      BY <1>2, <2>1, <3>1 DEF Heir, Chief
    <3>2. CASE g \in Survivors /\ Leads(g)
      BY <1>2, <3>2, OneChief
    <3> QED BY <2>2, <3>1, <3>2
  <2>4. \/ server_peers'[t] = Others(t)'
        \/ server_peers'[t] = Others(t)' \cup {l}
    BY <1>1, <2>1 DEF Heir
  <2>5. connected'[t] # {} \/ state'[t] = "panicked" => Leads(t)'
    BY <2>1 DEF Heir
  <2>6. l \notin server_peers'[t] => wire'[l][t] = <<>>
    BY <2>1 DEF Heir
  <2> QED BY <2>2, <2>3, <2>4, <2>5, <2>6 DEF Heir
<1>4. Asked'
  <2> SUFFICES ASSUME NEW m \in due', m.type = "FindRider" PROVE m.at \in Survivors' /\ Leads(m.at)'
    BY DEF Asked
  <2>1. m.at \in Survivors /\ Leads(m.at)
    BY DEF Bereft, Asked
  <2> QED BY <1>1, <2>1
<1>5. \A a, b : Fit(a, b, l) \subseteq Fit(a, b, l)'
  <2> SUFFICES ASSUME NEW a, NEW b, NEW m \in Fit(a, b, l) PROVE m \in Fit(a, b, l)'
    OBVIOUS
  <2>1. /\ m \in Line /\ m.type # "LeaderData"
        /\ m.type = "Coordinator" => a \in Survivors /\ Leads(a)
        /\ IsUpdate(m) => \/ a = l /\ b = Follower(l)
                          \/ a \in Survivors /\ b = NextOf(a)
    BY DEF Fit
  <2>2. m.type = "Coordinator" => a \in Survivors' /\ Leads(a)'
    BY <1>1, <2>1
  <2>3. IsUpdate(m) => \/ a = l /\ b = Follower(l)'
                       \/ a \in Survivors' /\ b = NextOf(a)'
    BY <1>1, <2>1
  <2> QED BY <2>1, <2>2, <2>3 DEF Fit
<1>6. Mail(l)'
  <2> SUFFICES ASSUME NEW a \in Servers, NEW b \in Survivors PROVE wire'[a][b] \in Seq(Fit(a, b, l)')
    BY <1>1 DEF Mail
  <2>1. PICK K, M : K = Fit(a, b, l) /\ M = Fit(a, b, l)'
    OBVIOUS
  <2>2. K \subseteq M /\ wire'[a][b] \in Seq(K)
    BY <1>5, <2>1
  <2>3. wire'[a][b] \in Seq(M)
    BY <2>2, MoreKinds
  <2> QED BY <2>1, <2>3
<1>7. ~Alive(l)' /\ starting' = None
  BY DEF Bereft
<1> QED BY <1>1, <1>3, <1>4, <1>6, <1>7 DEF Bereft

(* What a survivor sends fits.                                             *)
LEMMA FitSends ==
    ASSUME NEW l \in Servers, NEW s \in Survivors, NEW w \in Wires,
           server_peers' = server_peers,
           \A a \in Servers, b \in Survivors : w[a][b] \in Seq(Fit(a, b, l)),
           NEW ring \in Seq(Update), NEW direct \in Seq(Update), Sent(s, w, ring, direct)
    PROVE  \A a \in Servers, b \in Survivors : wire'[a][b] \in Seq(Fit(a, b, l))
<1>1. s \in Servers /\ Survivors \subseteq Servers /\ NextOf(s)' = NextOf(s)
  BY DEF Survivors, NextOf
<1> SUFFICES ASSUME NEW a \in Servers, NEW b \in Survivors PROVE wire'[a][b] \in Seq(Fit(a, b, l))
  OBVIOUS
<1>2. PICK K : K = Fit(a, b, l)
  OBVIOUS
<1>3. PICK gone \in Seq(Update) : gone = Gone(s, ring, direct)
  <2>1. Gone(s, ring, direct) \in Seq(Update)
    BY DEF Gone
  <2> QED BY <2>1
<1>4. wire'[a][b] = IF a = s /\ b = NextOf(s) /\ Alive(b) THEN w[a][b] \o gone ELSE w[a][b]
  BY <1>1, <1>3 DEF Sent
<1>5. w[a][b] \in Seq(K)
  BY <1>2
<1>6. CASE a = s /\ b = NextOf(s)
  <2>1. Update \subseteq K
    <3> SUFFICES ASSUME NEW m \in Update PROVE m \in K
      OBVIOUS
    <3>1. m \in Line
      BY DEF Line
    <3>2. IsUpdate(m) /\ m.type \notin {"Coordinator", "LeaderData"}
      BY <3>1, LineKinds DEF IsUpdate
    <3> QED BY <1>2, <1>6, <3>1, <3>2 DEF Fit
  <2>2. gone \in Seq(K)
    BY <2>1, MoreKinds
  <2>3. w[a][b] \o gone \in Seq(K)
    BY <1>5, <2>2, ConcatProperties
  <2> QED BY <1>2, <1>4, <1>5, <2>3
<1> QED BY <1>2, <1>4, <1>5, <1>6

(* A message of a client is for a survivor that leads.                     *)
LEMMA ClientHeir ==
    ASSUME TypeInv, NEW l \in Servers, Bereft(l), NEW s \in Servers, ClientMessage(s)
    PROVE  s \in Survivors /\ Leads(s)
<1>1. Managing(s) => s \in Survivors
  BY DEF Managing, Alive, Survivors
<1>2. s \in Survivors /\ connected[s] # {} => Leads(s)
  BY DEF Bereft, Heir
<1>3. (\E m \in due : m.type = "FindRider" /\ m.at = s) => Leads(s)
  BY DEF Bereft, Asked
<1>4. leader[s] = s => Leads(s)
  BY DEF Leads
<1>5. ASSUME NEW c \in Customers, RegisterCustomer(s, c) \/ FindRider(s, c) \/ PaymentExecuted(s, c)
      PROVE  s \in Survivors /\ Leads(s)
  BY <1>1, <1>2, <1>3, <1>4, <1>5 DEF RegisterCustomer, Visits, FindRider, PaymentExecuted, Answers
<1>6. ASSUME NEW c \in Customers, NEW x \in Restaurants,
             OrderRequest(s, c, x) \/ OrderReady(s, x, c) \/ OrderCancelled(s, x, c)
      PROVE  s \in Survivors /\ Leads(s)
  BY <1>1, <1>2, <1>6 DEF OrderRequest, OrderReady, OrderCancelled, Answers
<1>7. ASSUME NEW c \in Customers, NEW r \in Riders,
             DeliveryOfferAccepted(s, c, r) \/ DeliveryDone(s, c, r)
      PROVE  s \in Survivors /\ Leads(s)
  BY <1>1, <1>2, <1>7 DEF DeliveryOfferAccepted, DeliveryDone
<1>8. ASSUME NEW r \in Riders, RegisterRider(s, r) \/ LocationUpdateForRider(s, r)
      PROVE  s \in Survivors /\ Leads(s)
  BY <1>1, <1>2, <1>4, <1>8 DEF RegisterRider, Visits, LocationUpdateForRider
<1>9. ASSUME NEW x \in Restaurants, RegisterRestaurant(s, x) PROVE s \in Survivors /\ Leads(s)
  BY <1>1, <1>4, <1>9 DEF RegisterRestaurant, Visits
<1>10. CASE RegisterPaymentSystem(s)
  BY <1>1, <1>4, <1>10 DEF RegisterPaymentSystem, Visits
<1> QED BY <1>5, <1>6, <1>7, <1>8, <1>9, <1>10 DEF ClientMessage

----------------------------------------------------------------------------
(* Each step leaves the survivors in this state.                           *)

(* The turn of a client, of a survivor that leads.                         *)
LEMMA ClientTurnOrphans ==
    ASSUME TypeInv, NEW l \in Servers, Orphans(l), NEW s \in Survivors, Leads(s),
           ClientTurn(s), "stray" \notin faults'
    PROVE  Orphans(l)'
<1>1. PICK d \in Tables, ring \in Seq(Update), direct \in Seq(Update) :
         Turn(s, d, ring, direct)
  BY DEF ClientTurn
<1>2. /\ Says(tables[s], ring \o direct, d)
      /\ tables' = [tables EXCEPT ![s] = d] /\ Transmit(s, wire, ring, direct)
  BY <1>1 DEF Turn, Tells
<1>3. /\ UNCHANGED <<state, server_peers, leader, starting>>
      /\ \A t \in Servers \ {s} : connected'[t] = connected[t]
      /\ \A m \in due' \ due : m.type = "FindRider" => m.at = s
  BY DEF ClientTurn, Frame, Answered, serverVars
<1>4. s \in Servers /\ Bereft(l) /\ Survivors \subseteq Servers /\ l \notin Survivors
  BY DEF Orphans, Bereft, Survivors
<1>5. Sent(s, wire, ring, direct) /\ wire \in Wires
  <2>1. wire \in Wires /\ historical_state \in [Servers -> Seq(Update)]
    BY DEF TypeInv, TypeOK, Wires
  <2>2. server_peers' \in [Servers -> SUBSET Servers]
    BY <1>3 DEF TypeInv, TypeOK
  <2> QED BY <1>2, <1>4, <2>1, <2>2, SentOn
<1>6. \A p \in Survivors' : Chained(p, l)'
  BY <1>2, <1>3, <1>5, ClientChained
<1>7. \A a \in Servers, b \in Survivors : wire'[a][b] \in Seq(Fit(a, b, l))
  BY <1>3, <1>4, <1>5, FitSends DEF Bereft, Mail
<1>8. \A t \in Survivors : wire'[l][t] = wire[l][t]
  BY <1>4, <1>5 DEF Sent
<1>9. Bereft(l)'
  <2>1. \A t \in Servers : Alive(t)' <=> Alive(t)
    BY <1>3 DEF Alive
  <2>2. \A t \in Survivors : (Leads(t)' <=> Leads(t)) /\ leader'[t] = leader[t]
    BY <1>3 DEF Leads
  <2>3. \A t \in Survivors : connected'[t] # {} \/ state'[t] = "panicked" =>
                             connected[t] # {} \/ state[t] = "panicked" \/ Leads(t)
    BY <1>3, <1>4
  <2>4. \A m \in due' \ due : m.type = "FindRider" => m.at \in Survivors /\ Leads(m.at)
    BY <1>3
  <2> QED BY <1>3, <1>4, <1>7, <1>8, <2>1, <2>2, <2>3, <2>4, CalmBereft
<1> QED BY <1>6, <1>9 DEF Orphans

(* An answer to a client, or a panic of the manager.                       *)
LEMMA AnswerOrphans ==
    ASSUME TypeInv, NEW l \in Servers, Orphans(l), NEW s \in Survivors, Leads(s),
           Offers(s) \/ Panics(s)
    PROVE  Orphans(l)'
<1>1. /\ UNCHANGED <<server_peers, leader, starting, connected, tables, wire>>
      /\ \/ state' = state
         \/ Managing(s) /\ state' = [state EXCEPT ![s] = "panicked"]
      /\ \A m \in due' \ due : m.type = "Offer"
  <2>1. CASE Offers(s)
    BY <2>1 DEF Offers, serverVars
  <2>2. CASE Panics(s)
    BY <2>2 DEF Panics
  <2> QED BY <2>1, <2>2
<1>2. s \in Servers /\ Bereft(l) /\ Survivors \subseteq Servers
  BY DEF Orphans, Survivors
<1>3. \A t \in Servers : Alive(t)' <=> Alive(t)
  BY <1>1, <1>2 DEF Alive, Managing, TypeInv, TypeOK
<1>4. \A t \in Survivors : (Leads(t)' <=> Leads(t)) /\ leader'[t] = leader[t]
  BY <1>1 DEF Leads
<1>5. \A p \in Survivors' : Chained(p, l)'
  BY <1>1, <1>3, <1>4, NewsStay, QuietChained
<1>6. Bereft(l)'
  <2>1. \A t \in Survivors : connected'[t] # {} \/ state'[t] = "panicked" =>
                             connected[t] # {} \/ state[t] = "panicked" \/ Leads(t)
    <3>1. \A t \in Survivors : t = s \/ state'[t] = state[t]
      BY <1>1, <1>2 DEF TypeInv, TypeOK
    <3> QED BY <1>1, <3>1
  <2>2. \A a \in Servers, b \in Survivors : wire'[a][b] \in Seq(Fit(a, b, l))
    BY <1>1, <1>2 DEF Bereft, Mail
  <2> QED BY <1>1, <1>2, <1>3, <1>4, <2>1, <2>2, CalmBereft
<1> QED BY <1>5, <1>6 DEF Orphans

(* The line that a survivor takes fits, and so do those that are left.     *)
LEMMA TakenFit ==
    ASSUME TypeInv, NEW l \in Servers, Bereft(l), NEW s \in Servers, NEW p \in Servers,
           Arrives(s, p)
    PROVE  /\ s \in Survivors /\ Head(wire[p][s]) \in Fit(p, s, l)
           /\ \A a \in Servers, b \in Survivors : Taken(s, p)[a][b] \in Seq(Fit(a, b, l))
           /\ \A t \in Survivors : wire[l][t] = <<>> => Taken(s, p)[l][t] = <<>>
<1>1. s \in Survivors /\ Survivors \subseteq Servers
  BY DEF Arrives, Managing, Survivors, Alive
<1>2. \A a, b \in Servers : Taken(s, p)[a][b] =
          IF a = p /\ b = s THEN Tail(wire[p][s]) ELSE wire[a][b]
  BY TakenIs DEF ButFor
<1>3. PICK K : K = Fit(p, s, l)
  OBVIOUS
<1>4. PICK z : z = wire[p][s]
  OBVIOUS
<1>5. z \in Seq(K) /\ z # <<>>
  BY <1>1, <1>3, <1>4 DEF Bereft, Mail, Arrives
<1>6. Head(z) \in K /\ Tail(z) \in Seq(K)
  BY <1>5, FirstOf
<1>7. \A a \in Servers, b \in Survivors : Taken(s, p)[a][b] \in Seq(Fit(a, b, l))
  BY <1>1, <1>2, <1>3, <1>4, <1>6 DEF Bereft, Mail
<1>8. \A t \in Survivors : wire[l][t] = <<>> => Taken(s, p)[l][t] = <<>>
  BY <1>1, <1>2, <1>4, <1>5
<1> QED BY <1>1, <1>3, <1>4, <1>6, <1>7, <1>8

(* The arrival of an update.                                               *)
LEMMA ReceiveUpdateOrphans ==
    ASSUME TypeInv, NEW l \in Servers, Orphans(l), NEW s \in Servers, NEW p \in Servers,
           ReceiveUpdate(s, p)
    PROVE  Orphans(l)'
<1>1. PICK m : m = Head(wire[p][s])
  OBVIOUS
<1>2. PICK d : d = Updated(tables[s], m)
  OBVIOUS
<1>3. /\ Arrives(s, p) /\ m \in Update /\ d \in Tables
      /\ Passes(s, Taken(s, p), d, <<m>>)
      /\ UNCHANGED <<serverVars, connected>>
  BY <1>1, <1>2, ReceiveUpdatePasses
<1>4. PICK e \in Tables, direct \in Seq(Update) :
        /\ tables' = [tables EXCEPT ![s] = e]
        /\ Transmit(s, Taken(s, p), <<m>>, direct)
        /\ SameButQueue(d, e) /\ Quiet(direct)
        /\ \A x \in due' \ due : x.type = "Offer"
  BY <1>3 DEF Passes
<1>5. PICK w : w = Taken(s, p)
  OBVIOUS
<1>6. /\ w \in Wires /\ ButFor(w, wire, p, s, Tail(wire[p][s]))
      /\ wire[p][s] # <<>> /\ p \in server_peers[s]
  BY <1>3, <1>5, TakenIs DEF Arrives
<1>7. Bereft(l) /\ Survivors \subseteq Servers /\ l \notin Survivors
  BY DEF Orphans, Bereft, Survivors
<1>8. /\ s \in Survivors
      /\ \A a \in Servers, b \in Survivors : w[a][b] \in Seq(Fit(a, b, l))
      /\ \A t \in Survivors : wire[l][t] = <<>> => w[l][t] = <<>>
  BY <1>3, <1>5, <1>7, TakenFit
<1>9. UNCHANGED <<state, server_peers, leader, starting, connected>>
  BY <1>3 DEF serverVars
<1>10. PICK ring \in Seq(Update) : ring = <<m>>
  BY <1>3, OneLine
<1>11. Sent(s, w, ring, direct)
  <2>1. historical_state \in [Servers -> Seq(Update)]
    BY DEF TypeInv, TypeOK
  <2>2. server_peers' \in [Servers -> SUBSET Servers]
    BY <1>9 DEF TypeInv, TypeOK
  <2>3. Transmit(s, w, ring, direct)
    BY <1>4, <1>5, <1>10
  <2> QED BY <1>6, <2>1, <2>2, <2>3, SentOn
<1>12. \A q \in Survivors' : Chained(q, l)'
  <2>1. SameButQueue(Updated(tables[s], m), e) /\ Sent(s, w, <<m>>, direct)
    BY <1>2, <1>4, <1>10, <1>11
  <2> QED BY <1>1, <1>3, <1>4, <1>6, <1>8, <1>9, <2>1, ReceiveChained
<1>13. \A a \in Servers, b \in Survivors : wire'[a][b] \in Seq(Fit(a, b, l))
  BY <1>6, <1>8, <1>9, <1>11, FitSends
<1>14. \A t \in Survivors : wire[l][t] = <<>> => wire'[l][t] = <<>>
  BY <1>7, <1>8, <1>11 DEF Sent
<1>15. Bereft(l)'
  <2>1. \A t \in Servers : Alive(t)' <=> Alive(t)
    BY <1>9 DEF Alive
  <2>2. \A t \in Survivors : (Leads(t)' <=> Leads(t)) /\ leader'[t] = leader[t]
    BY <1>9 DEF Leads
  <2>3. \A t \in Survivors : connected'[t] # {} \/ state'[t] = "panicked" =>
                             connected[t] # {} \/ state[t] = "panicked" \/ Leads(t)
    BY <1>9
  <2>4. \A x \in due' \ due : x.type = "FindRider" => x.at \in Survivors /\ Leads(x.at)
    BY <1>4
  <2> QED BY <1>7, <1>9, <1>13, <1>14, <2>1, <2>2, <2>3, <2>4, CalmBereft
<1> QED BY <1>12, <1>15 DEF Orphans

(* A line that is overtaken.                                               *)
LEMMA SwapKind ==
    ASSUME NEW K, NEW q \in Seq(K), Len(q) > 1
    PROVE  <<q[2], q[1]>> \o SubSeq(q, 3, Len(q)) \in Seq(K)
<1>1. q[2] \in K /\ q[1] \in K
  OBVIOUS
<1>2. <<q[2], q[1]>> \in Seq(K)
  BY <1>1
<1>3. SubSeq(q, 3, Len(q)) \in Seq(K)
  OBVIOUS
<1> QED BY <1>2, <1>3, ConcatProperties

LEMMA OvertakenOrphans ==
    ASSUME TypeInv, NEW l \in Servers, Orphans(l), NEW s \in Servers, NEW p \in Servers,
           Overtaken(s, p)
    PROVE  Orphans(l)'
<1>1. PICK q : q = wire[p][s]
  OBVIOUS
<1>2. PICK v : v = <<q[2], q[1]>> \o SubSeq(q, 3, Len(q))
  OBVIOUS
<1>3. /\ Arrives(s, p) /\ Len(q) > 1 /\ q[1].type = "Coordinator"
      /\ UNCHANGED <<state, server_peers, leader, starting, connected, tables, due>>
  BY <1>1 DEF Overtaken, serverVars
<1>4. wire \in Wires /\ q \in Seq(Line)
  BY <1>1 DEF TypeInv, TypeOK, Wires
<1>5. \A a, b \in Servers : wire'[a][b] = IF a = p /\ b = s THEN v ELSE wire[a][b]
  <2>1. wire' = Put(wire, p, s, v)
    BY <1>1, <1>2, <1>4 DEF Overtaken, Put, Wires
  <2>2. v \in Seq(Line)
    BY <1>2, <1>3, <1>4, SwapKind
  <2>3. ButFor(Put(wire, p, s, v), wire, p, s, v)
    BY <1>4, <2>2, WireWith
  <2> QED BY <2>1, <2>3 DEF ButFor
<1>6. /\ Bereft(l) /\ Survivors \subseteq Servers /\ s \in Survivors
  BY <1>3 DEF Orphans, Survivors, Arrives, Managing, Alive
<1>7. \A t \in Servers : Alive(t)' <=> Alive(t)
  BY <1>3 DEF Alive
<1>8. \A t \in Survivors : (Leads(t)' <=> Leads(t)) /\ leader'[t] = leader[t]
  BY <1>3 DEF Leads
<1>9. \A a, b \in Servers : SameNews(wire'[a][b], wire[a][b])
  <2>1. SameNews(v, q)
    <3>1. ~IsUpdate(q[1])
      BY <1>3 DEF IsUpdate
    <3> QED BY <1>2, <1>3, <1>4, <3>1, NewsOvertaken
  <2> QED BY <1>1, <1>5, <2>1, NewsStay
<1>10. \A t \in Survivors' : Chained(t, l)'
  BY <1>3, <1>7, <1>8, <1>9, QuietChained
<1>11. \A a \in Servers, b \in Survivors : wire'[a][b] \in Seq(Fit(a, b, l))
  <2>1. PICK K : K = Fit(p, s, l)
    OBVIOUS
  <2>2. q \in Seq(K)
    BY <1>1, <1>6, <2>1 DEF Bereft, Mail
  <2>3. v \in Seq(K)
    BY <1>2, <1>3, <2>2, SwapKind
  <2> QED BY <1>5, <1>6, <2>1, <2>3 DEF Bereft, Mail
<1>12. \A t \in Survivors : wire[l][t] = <<>> => wire'[l][t] = <<>>
  <2>1. q # <<>>
    BY <1>3
  <2> QED BY <1>1, <1>5, <1>6, <2>1
<1>13. Bereft(l)'
  <2>1. \A t \in Survivors : connected'[t] # {} \/ state'[t] = "panicked" =>
                             connected[t] # {} \/ state[t] = "panicked" \/ Leads(t)
    BY <1>3
  <2>2. \A m \in due' \ due : m.type = "FindRider" => m.at \in Survivors /\ Leads(m.at)
    BY <1>3
  <2> QED BY <1>3, <1>6, <1>7, <1>8, <1>11, <1>12, <2>1, <2>2, CalmBereft
<1> QED BY <1>10, <1>13 DEF Orphans

(* The news of the new leader.                                             *)
LEMMA GotLeaderOrphans ==
    ASSUME TypeInv, NEW l \in Servers, Orphans(l), NEW s \in Servers, NEW p \in Servers,
           GotLeaderFromPeer(s, p)
    PROVE  Orphans(l)'
<1>1. PICK q : q = wire[p][s]
  OBVIOUS
<1>2. /\ Arrives(s, p) /\ wire' = Taken(s, p) /\ q # <<>>
      /\ Head(q).type \in {"Coordinator", "LeaderData"}
      /\ Head(q).type = "Coordinator" => leader' = [leader EXCEPT ![s] = p]
      /\ UNCHANGED <<state, server_peers, starting, connected, tables, due>>
  BY <1>1 DEF GotLeaderFromPeer, Arrives
<1>3. Bereft(l) /\ Survivors \subseteq Servers /\ q \in Seq(Line)
  BY <1>1 DEF Orphans, Survivors, TypeInv, TypeOK
<1>4. /\ s \in Survivors /\ Head(q) \in Fit(p, s, l)
      /\ \A a \in Servers, b \in Survivors : wire'[a][b] \in Seq(Fit(a, b, l))
      /\ \A t \in Survivors : wire[l][t] = <<>> => wire'[l][t] = <<>>
  BY <1>1, <1>2, <1>3, TakenFit
<1>5. p \in Survivors /\ Leads(p) /\ leader' = [leader EXCEPT ![s] = p]
  BY <1>2, <1>4 DEF Fit
<1>6. s # p
  <2>1. p \in server_peers[s] /\ p # l
    BY <1>2, <1>3, <1>5, OneChief DEF Arrives
  <2>2. p \in Others(s)
    BY <1>3, <1>4, <2>1 DEF Bereft, Heir
  <2> QED BY <2>2 DEF Others
<1>7. ~Leads(s)
  BY <1>3, <1>4, <1>5, <1>6, OneChief
<1>8. \A t \in Servers : Alive(t)' <=> Alive(t)
  BY <1>2 DEF Alive
<1>9. \A t \in Survivors : /\ Leads(t)' <=> Leads(t)
                           /\ \/ leader'[t] = leader[t]
                              \/ leader'[t] \in Survivors /\ Leads(leader'[t])
  <2>1. leader \in [Servers -> Servers \cup {None}]
    BY DEF TypeInv, TypeOK
  <2>2. leader'[s] = p /\ \A t \in Servers : t # s => leader'[t] = leader[t]
    BY <1>3, <1>4, <1>5, <2>1
  <2>3. ~Leads(s)'
    BY <1>6, <2>2 DEF Leads
  <2> QED BY <1>3, <1>5, <1>7, <2>2, <2>3 DEF Leads
<1>10. \A a, b \in Servers : SameNews(wire'[a][b], wire[a][b])
  <2>1. \A a, b \in Servers : wire'[a][b] = IF a = p /\ b = s THEN Tail(q) ELSE wire[a][b]
    BY <1>1, <1>2, TakenIs DEF ButFor
  <2>2. SameNews(Tail(q), q)
    BY <1>2, <1>3, NewsGone DEF IsUpdate
  <2> QED BY <1>1, <2>1, <2>2, NewsStay
<1>11. \A t \in Survivors' : Chained(t, l)'
  BY <1>2, <1>8, <1>9, <1>10, QuietChained
<1>12. Bereft(l)'
  <2>1. \A t \in Survivors : connected'[t] # {} \/ state'[t] = "panicked" =>
                             connected[t] # {} \/ state[t] = "panicked" \/ Leads(t)
    BY <1>2
  <2>2. \A m \in due' \ due : m.type = "FindRider" => m.at \in Survivors /\ Leads(m.at)
    BY <1>2
  <2> QED BY <1>2, <1>3, <1>4, <1>8, <1>9, <2>1, <2>2, CalmBereft
<1> QED BY <1>11, <1>12 DEF Orphans

(* Nothing at all.                                                         *)
LEMMA StillOrphans ==
    ASSUME TypeInv, NEW l \in Servers, Orphans(l), UNCHANGED vars
    PROVE  Orphans(l)'
<1>1. UNCHANGED <<state, server_peers, leader, starting, connected, tables, due, wire>>
  BY DEF vars, serverVars
<1>2. Bereft(l) /\ Survivors \subseteq Servers
  BY DEF Orphans, Survivors
<1>3. \A t \in Servers : Alive(t)' <=> Alive(t)
  BY <1>1 DEF Alive
<1>4. \A t \in Survivors : (Leads(t)' <=> Leads(t)) /\ leader'[t] = leader[t]
  BY <1>1 DEF Leads
<1>5. \A t \in Survivors' : Chained(t, l)'
  BY <1>1, <1>3, <1>4, NewsStay, QuietChained
<1>6. Bereft(l)'
  <2>1. \A a \in Servers, b \in Survivors : wire'[a][b] \in Seq(Fit(a, b, l))
    BY <1>1, <1>2 DEF Bereft, Mail
  <2>2. \A t \in Survivors : connected'[t] # {} \/ state'[t] = "panicked" =>
                             connected[t] # {} \/ state[t] = "panicked" \/ Leads(t)
    BY <1>1
  <2>3. \A m \in due' \ due : m.type = "FindRider" => m.at \in Survivors /\ Leads(m.at)
    BY <1>1
  <2> QED BY <1>1, <1>2, <1>3, <1>4, <2>1, <2>2, <2>3, CalmBereft
<1> QED BY <1>5, <1>6 DEF Orphans

(* While a survivor awaits l nobody leads, or has anything to do.          *)
LEMMA Leaderless ==
    ASSUME NEW l \in Servers, Bereft(l), \A t \in Survivors : ~Leads(t)
    PROVE  /\ \A t \in Survivors : /\ leader[t] = l /\ connected[t] = {}
                                   /\ state[t] # "panicked"
           /\ \A m \in due : m.type # "FindRider"
<1>1. ASSUME NEW t \in Survivors PROVE leader[t] = l
  <2> SUFFICES ASSUME Chief(leader[t]) PROVE FALSE
    BY DEF Bereft, Heir
  <2> QED BY DEF Chief
<1> QED BY <1>1 DEF Bereft, Heir, Asked

(* A survivor hears of the loss of l; the last one leads from then.        *)
LEMMA DisconnectedOrphans ==
    ASSUME TypeInv, NEW l \in Servers, Orphans(l), NEW s \in Servers, NEW p \in Servers,
           PeerDisconnected(s, p)
    PROVE  Orphans(l)'
<1>1. /\ UNCHANGED <<state, starting, tables, connected, wire, due>>
      /\ Managing(s) /\ p \in server_peers[s] /\ ~Alive(p) /\ wire[p][s] = <<>>
      /\ server_peers' = [server_peers EXCEPT ![s] = @ \ {p}]
      /\ leader' = IF leader[s] = p /\ server_peers'[s] = {}
                   THEN [leader EXCEPT ![s] = s] ELSE leader
  BY DEF PeerDisconnected
<1>2. /\ Bereft(l) /\ Survivors \subseteq Servers /\ s \in Survivors /\ l \notin Survivors
  BY <1>1 DEF Orphans, Bereft, Survivors, Managing, Alive
<1>3. p = l
  <2>1. server_peers[s] \subseteq Others(s) \cup {l}
    BY <1>2 DEF Bereft, Heir
  <2> QED BY <1>1, <2>1 DEF Others, Survivors
<1>4. \A t \in Survivors : ~Leads(t)
  BY <1>1, <1>2, <1>3, OneChief
<1>5. /\ \A t \in Survivors : leader[t] = l /\ connected[t] = {} /\ state[t] # "panicked"
      /\ \A m \in due : m.type # "FindRider"
  BY <1>2, <1>4, Leaderless
<1>6. /\ Survivors' = Survivors
      /\ \A t : Others(t)' = Others(t) /\ Follower(t)' = Follower(t)
  BY <1>1, RingStays DEF Alive
<1>7. /\ server_peers'[s] = Others(s)
      /\ \A t \in Servers : t # s => server_peers'[t] = server_peers[t]
  <2>1. server_peers \in [Servers -> SUBSET Servers]
    BY DEF TypeInv, TypeOK
  <2>2. server_peers[s] = Others(s) \/ server_peers[s] = Others(s) \cup {l}
    BY <1>2 DEF Bereft, Heir
  <2>3. l \notin Others(s)
    BY <1>2 DEF Others
  <2> QED BY <1>1, <1>3, <2>1, <2>2, <2>3
<1>8. ASSUME NEW a \in Servers, NEW b \in Survivors PROVE Fit(a, b, l) \subseteq Fit(a, b, l)'
  <2> SUFFICES ASSUME NEW m \in Fit(a, b, l) PROVE m \in Fit(a, b, l)'
    OBVIOUS
  <2>1. /\ m \in Line /\ m.type # "LeaderData"
        /\ m.type = "Coordinator" => a \in Survivors /\ Leads(a)
        /\ IsUpdate(m) => \/ a = l /\ b = Follower(l)
                          \/ a \in Survivors /\ b = NextOf(a)
    BY DEF Fit
  <2>2. m.type # "Coordinator"
    BY <1>4, <2>1
  <2>3. ASSUME a \in Survivors, b = NextOf(a) PROVE b = NextOf(a)'
    <3>1. CASE a = s
      <4>1. b = Follower(s)
        BY <1>2, <2>3, <3>1, NextLeft
      <4>2. NextOf(s)' = Follower(s)
        BY <1>7 DEF NextOf, Follower
      <4> QED BY <3>1, <4>1, <4>2
    <3>2. CASE a # s
      BY <1>7, <2>3, <3>2 DEF NextOf
    <3> QED BY <3>1, <3>2
  <2>4. IsUpdate(m) => \/ a = l /\ b = Follower(l)'
                       \/ a \in Survivors' /\ b = NextOf(a)'
    BY <1>6, <2>1, <2>3
  <2> QED BY <2>1, <2>2, <2>4 DEF Fit
<1>9. Mail(l)'
  <2> SUFFICES ASSUME NEW a \in Servers, NEW b \in Survivors PROVE wire'[a][b] \in Seq(Fit(a, b, l)')
    BY <1>6 DEF Mail
  <2>1. PICK K, M : K = Fit(a, b, l) /\ M = Fit(a, b, l)'
    OBVIOUS
  <2>2. K \subseteq M /\ wire[a][b] \in Seq(K)
    BY <1>2, <1>8, <2>1 DEF Bereft, Mail
  <2>3. wire[a][b] \in Seq(M)
    BY <2>2, MoreKinds
  <2> QED BY <1>1, <2>1, <2>3
<1>10. Asked' /\ ~Alive(l)' /\ starting' = None
  BY <1>1, <1>2, <1>5 DEF Asked, Bereft, Alive
<1>11. leader \in [Servers -> Servers \cup {None}]
  BY DEF TypeInv, TypeOK
<1>12. ASSUME NEW t \in Survivors
       PROVE  /\ \/ server_peers'[t] = Others(t)'
                 \/ server_peers'[t] = Others(t)' \cup {l}
              /\ connected'[t] = {} /\ state'[t] # "panicked"
              /\ l \notin server_peers'[t] => wire'[l][t] = <<>>
  <2>1. \/ server_peers'[t] = Others(t)'
        \/ server_peers'[t] = Others(t)' \cup {l}
    BY <1>2, <1>6, <1>7 DEF Bereft, Heir
  <2>2. connected'[t] = {} /\ state'[t] # "panicked"
    BY <1>1, <1>5
  <2>3. l \notin server_peers'[t] => wire'[l][t] = <<>>
    BY <1>1, <1>2, <1>3, <1>7 DEF Bereft, Heir
  <2> QED BY <2>1, <2>2, <2>3
<1>13. CASE Others(s) = {}
  <2>1. leader' = [leader EXCEPT ![s] = s]
    BY <1>1, <1>2, <1>3, <1>5, <1>7, <1>13
  <2>2. leader'[s] = s
    BY <1>2, <1>11, <2>1
  <2>3. Survivors = {s}
    BY <1>2, <1>13 DEF Others
  <2>4. Chief(s)'
    <3>1. s <= s
      BY Ordered
    <3> QED BY <1>6, <1>7, <2>2, <2>3, <3>1 DEF Chief, Leads
  <2>5. \A t \in Survivors' : Heir(t, l)'
    BY <1>6, <1>12, <2>2, <2>3, <2>4 DEF Heir
  <2>6. \A t \in Survivors' : Chained(t, l)'
    <3>1. Follower(s)' = None
      BY <1>6, <1>13, FollowerIs
    <3> QED BY <1>6, <2>3, <3>1 DEF Chained
  <2> QED BY <1>9, <1>10, <2>5, <2>6 DEF Orphans, Bereft
<1>14. CASE Others(s) # {}
  <2>1. leader' = leader
    BY <1>1, <1>7, <1>14
  <2>2. \A t \in Survivors : Heir(t, l)'
    <3>1. \A t \in Survivors : leader'[t] = l
      BY <1>5, <2>1
    <3> QED BY <1>12, <3>1 DEF Heir
  <2>3. \A t \in Survivors' : Chained(t, l)'
    BY <1>1, <1>2, <1>3, <2>1, DisconnectChained
  <2> QED BY <1>6, <1>9, <1>10, <2>2, <2>3 DEF Orphans, Bereft
<1> QED BY <1>13, <1>14

(* Without haste a survivor takes over when all have heard of the loss.    *)
LEMMA Unhurried ==
    ASSUME TypeInv, NEW l \in Servers, Bereft(l), NEW h \in Servers, TakeOver(h),
           "hasty" \notin faults'
    PROVE  /\ h \in Survivors
           /\ \A t \in Survivors : ~Leads(t) /\ server_peers[t] = Others(t) /\ t <= h
           /\ \A a, b \in Survivors \ {h} : \A k : ~Touches(wire[a][b], k)
<1>1. /\ Managing(h) /\ leader[h] # h /\ \A p \in server_peers[h] : p < h
      /\ ~Hasty(h)
  BY DEF TakeOver
<1>2. /\ Survivors \subseteq Servers /\ h \in Survivors /\ l \notin Survivors
  BY <1>1 DEF Bereft, Survivors, Managing, Alive
<1>3. ASSUME NEW t \in Survivors PROVE ~Leads(t)
  <2> SUFFICES ASSUME Leads(t) PROVE FALSE
    OBVIOUS
  <2>1. h <= t /\ server_peers[h] = Others(h)
    BY <1>2, OneChief DEF Chief
  <2>2. t \in Others(h)
    BY <1>1 DEF Leads, Others
  <2>3. t < h /\ t \in Nat /\ h \in Nat
    BY <1>1, <1>2, <2>1, <2>2, Ordered
  <2> QED BY <2>1, <2>3
<1>4. \A t \in Survivors : leader[t] = l /\ Managing(t)
  <2>1. \A t \in Survivors : leader[t] = l /\ state[t] # "panicked"
    BY <1>3, Leaderless
  <2> QED BY <2>1 DEF Survivors, Alive, Managing, TypeInv, TypeOK
<1>5. \A t \in Survivors : server_peers[t] = Others(t)
  <2>1. \A t \in Survivors : l \notin server_peers[t]
    BY <1>1, <1>2, <1>4 DEF Hasty
  <2> QED BY <2>1 DEF Bereft, Heir
<1>6. ASSUME NEW t \in Survivors PROVE t <= h
  <2>1. t = h \/ t \in server_peers[h]
    BY <1>2, <1>5 DEF Others
  <2>2. t \in Nat /\ h \in Nat
    BY <1>2, Ordered
  <2> QED BY <1>1, <2>1, <2>2
<1>7. ASSUME NEW a \in Survivors \ {h}, NEW b \in Survivors \ {h}, NEW k PROVE ~Touches(wire[a][b], k)
  <2>1. \A i \in DOMAIN wire[a][b] : ~IsUpdate(wire[a][b][i])
    BY <1>1, <1>2 DEF Hasty
  <2> QED BY <2>1 DEF Touches, About, IsUpdate
<1> QED BY <1>2, <1>3, <1>5, <1>6, <1>7

LEMMA TakeOverOrphans ==
    ASSUME TypeInv, NEW l \in Servers, Orphans(l), NEW h \in Servers, TakeOver(h),
           "hasty" \notin faults'
    PROVE  Orphans(l)'
<1>1. /\ UNCHANGED <<state, server_peers, starting, tables, connected, due>>
      /\ leader' = [leader EXCEPT ![h] = h]
  BY DEF TakeOver
<1>2. Bereft(l) /\ Survivors \subseteq Servers /\ l \notin Survivors
  BY DEF Orphans, Bereft, Survivors
<1>3. /\ h \in Survivors
      /\ \A t \in Survivors : ~Leads(t) /\ server_peers[t] = Others(t) /\ t <= h
      /\ \A a, b \in Survivors \ {h} : \A k : ~Touches(wire[a][b], k)
  BY <1>2, Unhurried
<1>4. PICK m \in Line : m = [type |-> "Coordinator"]
  BY DEF Line
<1>5. \A a, b \in Servers : \/ wire'[a][b] = wire[a][b]
                            \/ a = h /\ wire'[a][b] = Append(wire[a][b], m)
  <2>1. wire \in Wires
    BY DEF TypeInv, TypeOK, Wires
  <2>2. PICK row : row = [t \in Servers |->
               IF t \in server_peers[h] /\ Alive(t) THEN Append(wire[h][t], m) ELSE wire[h][t]]
    OBVIOUS
  <2>3. wire' = [wire EXCEPT ![h] = row]
    BY <1>4, <2>1, <2>2 DEF TakeOver, Wires
  <2> QED BY <2>1, <2>2, <2>3 DEF Wires
<1>6. \A a, b \in Servers : SameNews(wire'[a][b], wire[a][b])
  <2> SUFFICES ASSUME NEW a \in Servers, NEW b \in Servers PROVE SameNews(wire'[a][b], wire[a][b])
    OBVIOUS
  <2>1. wire[a][b] \in Seq(Line) /\ ~IsUpdate(m)
    BY <1>4 DEF TypeInv, TypeOK, IsUpdate
  <2>2. SameNews(Append(wire[a][b], m), wire[a][b])
    BY <2>1, NewsCome
  <2> QED BY <1>5, <2>2, NewsStay
<1>7. \A t \in Survivors' : Chained(t, l)'
  BY <1>1, <1>3, <1>6, TakeOverChained
<1>8. /\ Survivors' = Survivors
      /\ \A t : Others(t)' = Others(t) /\ Follower(t)' = Follower(t) /\ NextOf(t)' = NextOf(t)
  BY <1>1, RingStays DEF Alive, NextOf
<1>9. leader'[h] = h /\ \A t \in Servers : t # h => leader'[t] = leader[t]
  BY <1>1 DEF TypeInv, TypeOK
<1>10. /\ \A t \in Survivors : leader[t] = l /\ connected[t] = {} /\ state[t] # "panicked"
       /\ \A x \in due : x.type # "FindRider"
  BY <1>2, <1>3, Leaderless
<1>11. Chief(h)'
  BY <1>1, <1>3, <1>8, <1>9 DEF Chief, Leads
<1>12. ASSUME NEW t \in Survivors PROVE Heir(t, l)'
  <2>1. server_peers'[t] = Others(t)' /\ connected'[t] = {} /\ state'[t] # "panicked"
    BY <1>1, <1>3, <1>8, <1>10
  <2>2. PICK g : g = leader'[t]
    OBVIOUS
  <2>4. g = l \/ Chief(g)'
    <3>1. g = l \/ g = h
      BY <1>2, <1>9, <1>10, <2>2
    <3> QED BY <1>11, <3>1
  <2>3. wire'[l][t] = <<>>
    <3>1. l \notin server_peers[t]
      BY <1>2, <1>3 DEF Others
    <3>2. wire[l][t] = <<>>
      BY <1>2, <3>1 DEF Bereft, Heir
    <3>3. t \in Servers /\ l # h
      BY <1>2, <1>3
    <3> QED BY <1>5, <3>2, <3>3
  <2> QED BY <2>1, <2>2, <2>3, <2>4 DEF Heir
<1>13. ASSUME NEW a \in Servers, NEW b \in Survivors PROVE wire'[a][b] \in Seq(Fit(a, b, l)')
  <2>1. PICK K, M : K = Fit(a, b, l) /\ M = Fit(a, b, l)'
    OBVIOUS
  <2>2. K \subseteq M
    <3> SUFFICES ASSUME NEW x \in K PROVE x \in M
      OBVIOUS
    <3>1. /\ x \in Line /\ x.type # "LeaderData"
          /\ x.type = "Coordinator" => a \in Survivors /\ Leads(a)
          /\ IsUpdate(x) => \/ a = l /\ b = Follower(l)
                            \/ a \in Survivors /\ b = NextOf(a)
      BY <2>1 DEF Fit
    <3>2. x.type # "Coordinator"
      BY <1>3, <3>1
    <3> QED BY <1>8, <2>1, <3>1, <3>2 DEF Fit
  <2>3. wire[a][b] \in Seq(K)
    BY <1>2, <2>1 DEF Bereft, Mail
  <2>4. wire[a][b] \in Seq(M)
    BY <2>2, <2>3, MoreKinds
  <2>5. a = h => m \in M
    BY <1>3, <1>4, <1>8, <1>9, <2>1 DEF Fit, Leads, IsUpdate
  <2>6. PICK z : z = wire[a][b]
    OBVIOUS
  <2>7. a = h => Append(z, m) \in Seq(M)
    BY <2>4, <2>5, <2>6
  <2> QED BY <1>2, <1>5, <2>1, <2>4, <2>6, <2>7
<1>14. Mail(l)'
  BY <1>8, <1>13 DEF Mail
<1>15. Asked' /\ ~Alive(l)' /\ starting' = None
  BY <1>1, <1>2, <1>10 DEF Asked, Bereft, Alive
<1> QED BY <1>7, <1>8, <1>12, <1>14, <1>15 DEF Orphans, Bereft

(* While no server starts, none joins.                                     *)
LEMMA NoneJoins ==
    ASSUME TypeInv, starting = None, disturbances' = disturbances
    PROVE  ~Join /\ \A s \in Servers : ~Crash(s)
<1>1. disturbances \in Nat /\ None \notin Servers
  BY DataRingAssumption DEF TypeInv, TypeOK
<1>2. disturbances' # disturbances + 1
  BY <1>1
<1>3. \A p \in Servers : link[p] = "none"
  BY <1>1 DEF TypeInv, Linked
<1>4. \A p \in Servers : ~Start(p) /\ ~Crash(p)
  BY <1>2 DEF Start, Crash
<1>5. \A p \in Servers : /\ ~IsPeerConnected(p) /\ ~ConnectServerPeer(p)
                         /\ ~CreateServerPeer(p) /\ ~SendLeader(p)
  BY <1>3 DEF IsPeerConnected, ConnectServerPeer, CreateServerPeer, SendLeader
<1>6. ~InitLeader
  BY DEF InitLeader
<1> QED BY <1>4, <1>5, <1>6 DEF Join

(* Every step leaves them in it, but a start, another crash, a takeover in *)
(* haste and an order that was not to be had.                              *)
LEMMA OrphanStep ==
    ASSUME TypeInv, NEW l \in Servers, Orphans(l), [Next]_vars,
           disturbances' = disturbances, "stray" \notin faults', "hasty" \notin faults'
    PROVE  Orphans(l)'
<1>1. Bereft(l) /\ starting = None
  BY DEF Orphans, Bereft
<1>2. ASSUME NEW s \in Servers, ClientMessage(s) PROVE Orphans(l)'
  <2>1. s \in Survivors /\ Leads(s)
    BY <1>1, <1>2, ClientHeir
  <2>2. ClientTurn(s) \/ Offers(s) \/ Panics(s)
    BY <1>2, ClientTurns
  <2> QED BY <2>1, <2>2, ClientTurnOrphans, AnswerOrphans
<1>3. ASSUME NEW s \in Servers, PeerMessage(s) PROVE Orphans(l)'
  BY <1>3, ReceiveUpdateOrphans, GotLeaderOrphans, OvertakenOrphans, DisconnectedOrphans
     DEF PeerMessage
<1> QED BY <1>1, <1>2, <1>3, NoneJoins, TakeOverOrphans, StillOrphans DEF Next

----------------------------------------------------------------------------
(* Before a leader dies.                                                   *)

(* All the servers know each other and l, and send each other updates only.*)
Settled(l) ==
    /\ \A s \in Survivors : leader[s] = l /\ server_peers[s] = Others(s)
    /\ starting = None
    /\ AllWires(wire, Update)

(* So it is at first.                                                      *)
LEMMA BeginsSettled ==
    ASSUME NEW S, NEW l, NEW known, Begins(S, l, known)
    PROVE  Settled(l)
<1>1. /\ S \subseteq Servers /\ starting = None
      /\ \A s \in Servers : /\ Alive(s) <=> s \in S
                            /\ server_peers[s] = IF s \in S THEN S \ {s} ELSE {}
                            /\ leader[s] = IF s \in S THEN l ELSE None
      /\ \A s, t \in Servers : wire[s][t] = <<>>
  BY DEF Begins, Alive
<1>2. Survivors = S
  BY <1>1 DEF Survivors
<1>3. AllWires(wire, Update)
  BY <1>1, EmptyIn DEF AllWires
<1> QED BY <1>1, <1>2, <1>3 DEF Settled, Others

(* So it stays while none dies and none is started.                        *)
LEMMA SettledSends ==
    ASSUME TypeInv, NEW l, Settled(l), NEW s \in Servers, UNCHANGED serverVars,
           NEW w \in Wires, AllWires(w, Update),
           NEW ring \in Seq(Update), NEW direct \in Seq(Update), Transmit(s, w, ring, direct)
    PROVE  Settled(l)'
<1>1. UNCHANGED <<state, server_peers, leader, starting>>
  BY DEF serverVars
<1>2. Survivors' = Survivors /\ \A t : Others(t)' = Others(t)
  BY <1>1, RingStays DEF Alive
<1>3. AllWires(wire', Update)
  <2>1. historical_state \in [Servers -> Seq(Update)]
    BY DEF TypeInv, TypeOK
  <2>2. server_peers' \in [Servers -> SUBSET Servers]
    BY <1>1 DEF TypeInv, TypeOK
  <2> QED BY <2>1, <2>2, SendsKind
<1> QED BY <1>1, <1>2, <1>3 DEF Settled

LEMMA SettledStill ==
    ASSUME NEW l, Settled(l), UNCHANGED <<state, server_peers, leader, starting, wire>>
    PROVE  Settled(l)'
<1>1. Survivors' = Survivors /\ \A t : Others(t)' = Others(t)
  BY RingStays DEF Alive
<1>2. AllWires(wire', Update)
  BY DEF Settled
<1> QED BY <1>1, <1>2 DEF Settled

LEMMA SettledTaken ==
    ASSUME TypeInv, NEW l, Settled(l), NEW s \in Servers, NEW p \in Servers, Arrives(s, p)
    PROVE  /\ IsUpdate(Head(wire[p][s]))
           /\ AllWires(Taken(s, p), Update) /\ Taken(s, p) \in Wires
<1>1. AllWires(wire, Update)
  BY DEF Settled
<1>2. wire[p][s] \in Seq(Update) /\ wire[p][s] # <<>>
  BY <1>1 DEF AllWires, Arrives
<1>3. Head(wire[p][s]) \in Update /\ Tail(wire[p][s]) \in Seq(Update)
  BY <1>2, FirstOf
<1>4. IsUpdate(Head(wire[p][s]))
  <2>1. Head(wire[p][s]) \in Line
    BY <1>3 DEF Line
  <2> QED BY <1>3, <2>1, LineKinds
<1>5. AllWires(Taken(s, p), Update) /\ Taken(s, p) \in Wires
  BY <1>1, <1>3, TakenIs, ButForKind
<1> QED BY <1>4, <1>5

LEMMA SettledStep ==
    ASSUME TypeInv, NEW l \in Servers, Reigns(l), Follow(l), Settled(l), [Next]_vars,
           disturbances' = disturbances
    PROVE  Settled(l)'
<1>1. starting = None /\ AllWires(wire, Update)
  BY DEF Settled
<1>2. ASSUME NEW s \in Servers, ClientTurn(s) PROVE Settled(l)'
  <2>1. PICK d \in Tables, ring \in Seq(Update), direct \in Seq(Update) :
           Turn(s, d, ring, direct)
    BY <1>2 DEF ClientTurn
  <2>2. UNCHANGED serverVars /\ Transmit(s, wire, ring, direct) /\ wire \in Wires
    BY <1>2, <2>1 DEF ClientTurn, Frame, Turn, Wires, TypeInv, TypeOK
  <2> QED BY <1>1, <2>2, SettledSends
<1>3. ASSUME NEW s \in Servers, Offers(s) PROVE Settled(l)'
  BY <1>3, SettledStill DEF Offers, serverVars
<1>4. ASSUME NEW s \in Servers, NEW p \in Servers, ReceiveUpdate(s, p) PROVE Settled(l)'
  <2>1. PICK m : m = Head(wire[p][s])
    OBVIOUS
  <2>2. /\ Arrives(s, p) /\ m \in Update
        /\ Passes(s, Taken(s, p), Updated(tables[s], m), <<m>>)
        /\ UNCHANGED serverVars
    BY <1>4, <2>1, ReceiveUpdatePasses
  <2>3. PICK e \in Tables, direct \in Seq(Update) : Transmit(s, Taken(s, p), <<m>>, direct)
    BY <2>2 DEF Passes
  <2>4. PICK ring \in Seq(Update) : ring = <<m>>
    BY <2>2, OneLine
  <2> QED BY <2>2, <2>3, <2>4, SettledTaken, SettledSends
<1>5. ASSUME NEW s \in Servers, NEW p \in Servers PROVE ~GotLeaderFromPeer(s, p)
  <2> SUFFICES ASSUME GotLeaderFromPeer(s, p) PROVE FALSE
    OBVIOUS
  <2>1. Arrives(s, p) /\ ~IsUpdate(Head(wire[p][s]))
    BY DEF GotLeaderFromPeer, IsUpdate
  <2> QED BY <2>1, SettledTaken
<1>6. ASSUME NEW s \in Servers, ClientMessage(s) PROVE Settled(l)'
  BY <1>2, <1>3, <1>6, ClientTurns, NoPanic
<1>7. ASSUME NEW s \in Servers, PeerMessage(s) PROVE Settled(l)'
  BY <1>4, <1>5, <1>7, NotOvertaken, NotDisconnected DEF PeerMessage
<1>8. CASE UNCHANGED vars
  BY <1>8, SettledStill DEF vars, serverVars
<1> QED BY <1>1, <1>6, <1>7, <1>8, NoneJoins, NotTakenOver DEF Next

(* The first lines of some are of their kind.                              *)
LEMMA PartKind ==
    ASSUME NEW K, NEW q \in Seq(K), NEW n \in Nat, n <= Len(q)
    PROVE  SubSeq(q, 1, n) \in Seq(K)
OBVIOUS

(* Each of them is.                                                        *)
LEMMA EachOfKind ==
    ASSUME NEW K, NEW q \in Seq(K), NEW i \in DOMAIN q
    PROVE  q[i] \in K
OBVIOUS

(* The leader dies.                                                        *)
LEMMA CrashOrphans ==
    ASSUME TypeInv, NEW l \in Servers, Reigns(l), Rounds(l), Follow(l), Settled(l),
           NEW s \in Servers, Crash(s), "replica crash" \notin faults'
    PROVE  Orphans(l)'
<1>1. /\ Alive(s) /\ leader[s] = s
      /\ state' = [state EXCEPT ![s] = "down"]
      /\ server_peers' = [server_peers EXCEPT ![s] = {}]
      /\ leader' = [leader EXCEPT ![s] = None]
      /\ tables' = [tables EXCEPT ![s] = NoData]
      /\ connected' = [connected EXCEPT ![s] = {}]
      /\ due' = {m \in due : m.type # "FindRider" \/ m.at # s}
      /\ starting' = IF starting = s THEN None ELSE starting
  BY DEF Crash
<1>2. s = l /\ l \in Survivors /\ Survivors \subseteq Servers
  BY <1>1 DEF Settled, Survivors
<1>3. /\ state \in [Servers -> {"down", "up", "panicked"}]
      /\ server_peers \in [Servers -> SUBSET Servers]
      /\ leader \in [Servers -> Servers \cup {None}]
      /\ tables \in [Servers -> Tables] /\ connected \in [Servers -> SUBSET Clients]
      /\ wire \in Wires
  BY DEF TypeInv, TypeOK, Wires
<1>4. Survivors' = Survivors \ {l}
  BY <1>1, <1>2, <1>3 DEF Survivors, Alive
<1>5. /\ \A t : Others(t)' = Others(t) \ {l}
      /\ \A t \in Survivors' : Others(t) = Others(t)' \cup {l}
      /\ Others(l)' = Others(l)
  BY <1>2, <1>4 DEF Others
<1>6. \A t \in Survivors' :
         /\ t \in Servers /\ t \in Survivors /\ t # l
         /\ server_peers'[t] = server_peers[t] /\ leader'[t] = leader[t]
         /\ tables'[t] = tables[t] /\ connected'[t] = connected[t] /\ state'[t] = state[t]
  BY <1>1, <1>2, <1>3, <1>4
<1>7. ASSUME NEW t \in Survivors'
      PROVE  /\ server_peers'[t] = Others(t)' \cup {l}
             /\ leader'[t] = l /\ connected'[t] = {} /\ state'[t] # "panicked"
  <2>1. t \in Servers /\ t \in Survivors /\ t # l
    BY <1>6
  <2>2. server_peers[t] = Others(t) /\ leader[t] = l
    BY <2>1 DEF Settled
  <2>3. connected[t] = {} /\ state[t] # "panicked"
    BY <2>1 DEF Reigns, Rules
  <2> QED BY <1>5, <1>6, <2>2, <2>3
<1>8. \A t \in Survivors' : Heir(t, l)'
  BY <1>7 DEF Heir
<1>9. Asked' /\ ~Alive(l)' /\ starting' = None
  <2>1. ~Alive(l)'
    BY <1>2, <1>4 DEF Survivors
  <2>2. starting' = None
    BY <1>1 DEF Settled
  <2> QED BY <1>1, <1>2, <2>1, <2>2 DEF Asked, Reigns, Serves
<1>10. PICK left \in [Servers -> 0 .. Max({Len(wire[s][t]) : t \in Servers})] :
          /\ \A t \in Servers : left[t] <= Len(wire[s][t])
          /\ wire' = [p \in Servers |-> [t \in Servers |->
                 IF p = s THEN SubSeq(wire[s][t], 1, left[t])
                 ELSE IF t = s THEN <<>> ELSE wire[p][t]]]
  BY DEF Crash
<1>11. ASSUME NEW a \in Servers, NEW b \in Survivors' PROVE wire[a][b] \in Seq(Fit(a, b, l)')
  <2>1. PICK K : K = Fit(a, b, l)'
    OBVIOUS
  <2>2. PICK z : z = wire[a][b]
    OBVIOUS
  <2>3. z \in Seq(Update) /\ b \in Servers /\ b # None
    BY <1>6, <2>2, DataRingAssumption DEF Settled, AllWires
  <2>4. CASE b # NextOf(a)
    <3>1. z \in Seq(News)
      BY <2>2, <2>3, <2>4 DEF Follow, Passing
    <3>2. ASSUME NEW i \in DOMAIN z PROVE FALSE
      <4>1. z[i] \in Update
        BY <2>3, EachOfKind
      <4>2. z[i] \in News
        BY <3>1, EachOfKind
      <4>3. z[i] \in Line
        BY <4>2 DEF News
      <4> QED BY <4>1, <4>2, <4>3, LineKinds DEF News
    <3>3. \A i \in DOMAIN z : z[i] \in K
      BY <3>2
    <3>4. z \in Seq(K)
      BY <2>3, <3>3, AllOfKind
    <3> QED BY <2>1, <2>2, <3>4
  <2>5. CASE b = NextOf(a)
    <3>1. Alive(a)
      BY <2>3, <2>5, NextFacts DEF Follow, Rounds, Standing
    <3>2. a \in Survivors
      BY <3>1 DEF Survivors
    <3>3. a = l => b = Follower(l)'
      <4>1. NextOf(l) = Follower(l)
        BY <1>2 DEF Settled, NextOf, Follower
      <4>2. Follower(l)' = Follower(l)
        BY <1>5 DEF Follower
      <4> QED BY <2>5, <4>1, <4>2
    <3>4. a # l => a \in Survivors' /\ b = NextOf(a)'
      BY <1>4, <1>6, <2>5, <3>2 DEF NextOf
    <3>5. Update \subseteq K
      <4> SUFFICES ASSUME NEW m \in Update PROVE m \in K
        OBVIOUS
      <4>1. m \in Line
        BY DEF Line
      <4>2. IsUpdate(m) /\ m.type \notin {"Coordinator", "LeaderData"}
        BY <4>1, LineKinds DEF IsUpdate
      <4> QED BY <2>1, <3>3, <3>4, <4>1, <4>2 DEF Fit
    <3>6. z \in Seq(K)
      BY <2>3, <3>5, MoreKinds
    <3> QED BY <2>1, <2>2, <3>6
  <2> QED BY <2>4, <2>5
<1>12. ASSUME NEW a \in Servers, NEW b \in Survivors' PROVE wire'[a][b] \in Seq(Fit(a, b, l)')
  <2>1. PICK K : K = Fit(a, b, l)'
    OBVIOUS
  <2>2. PICK z : z = wire[a][b]
    OBVIOUS
  <2>3. z \in Seq(K) /\ b \in Servers /\ b # l
    BY <1>6, <1>11, <2>1, <2>2
  <2>4. a # l => wire'[a][b] = z
    BY <1>2, <1>10, <2>2, <2>3
  <2>5. CASE a = l
    <3>1. left[b] \in Nat
      BY <2>3, Counted
    <3>2. left[b] <= Len(z) /\ wire'[a][b] = SubSeq(z, 1, left[b])
      BY <1>2, <1>10, <2>2, <2>3, <2>5
    <3>3. SubSeq(z, 1, left[b]) \in Seq(K)
      BY <2>3, <3>1, <3>2, PartKind
    <3> QED BY <2>1, <3>2, <3>3
  <2> QED BY <2>1, <2>3, <2>4, <2>5
<1>13. Mail(l)'
  BY <1>12 DEF Mail
<1>14. ASSUME NEW p \in Survivors', NextOf(p)' = Follower(p)', Follower(p)' # None
       PROVE  Feeds({}, p, l)' /\ Behind(p, {})'
  <2>1. PICK n : n = Follower(p)'
    OBVIOUS
  <2>2. n \in Survivors'
    <3>1. PICK Q : Q = Others(p)'
      OBVIOUS
    <3>2. Q \subseteq Servers /\ Q \subseteq Survivors'
      BY <1>4, <1>5, <3>1 DEF Others, Survivors
    <3>3. n = next_server_peer(p, Q)
      BY <2>1, <3>1 DEF Follower
    <3>a. p \in Servers /\ n # None
      BY <1>6, <1>14, <2>1
    <3>b. PICK m : m = next_server_peer(p, Q)
      OBVIOUS
    <3>c. /\ Q = {} => m = None
          /\ Q # {} => m \in Q
      BY <3>2, <3>a, <3>b, NextPeer
    <3>4. n \in Q
      BY <3>3, <3>a, <3>b, <3>c
    <3> QED BY <3>2, <3>4
  <2>3. n \in Servers /\ n # l /\ n # None
    BY <1>6, <1>14, <2>1, <2>2
  <2>4. NextOf(p) = n
    BY <1>6, <1>14, <2>1 DEF NextOf
  <2>5. ~IsLast(p, l)'
    <3>1. NextOf(p)' = next_server_peer(p, Others(p)' \cup {l})
      BY <1>7 DEF NextOf
    <3> QED BY <1>14, <2>1, <2>3, <3>1 DEF IsLast
  <2>6. Feeds({}, p, l)'
    BY <2>5 DEF Feeds
  <2>7. Alike(Made(tables[n], wire[p][n]), tables[p])
    BY <1>6, <2>3, <2>4 DEF Follow, Agrees
  <2>8. wire'[p][n] = wire[p][n] /\ tables'[p] = tables[p] /\ tables'[n] = tables[n]
    BY <1>2, <1>6, <1>10, <2>2, <2>3
  <2>9. \A k \in Keys : View(Made(tables'[n], wire'[p][n]), k) = View(tables'[p], k)
    <3>1. PICK d, e : d = Made(tables[n], wire[p][n]) /\ e = tables[p]
      OBVIOUS
    <3>2. tables[n] \in Tables /\ wire[p][n] \in Seq(Line) /\ e \in Tables
      BY <1>3, <1>6, <2>3, <3>1 DEF Wires
    <3>3. d \in Tables /\ Alike(d, e)
      BY <2>7, <3>1, <3>2, MadeAlike DEF Alike
    <3>4. \A k \in Keys : View(d, k) = View(e, k)
      BY <3>2, <3>3, AlikeViews
    <3> QED BY <2>8, <3>1, <3>4
  <2>10. Behind(p, {})'
    BY <2>1, <2>9 DEF Behind
  <2> QED BY <2>6, <2>10
<1>15. \A p \in Survivors' : Chained(p, l)'
  BY <1>14 DEF Chained
<1> QED BY <1>8, <1>9, <1>13, <1>15 DEF Orphans, Bereft

----------------------------------------------------------------------------
(* The survivors agree.                                                    *)

(* At rest nothing is on its way between survivors that have a new leader. *)
LEMMA RestLed ==
    ASSUME TypeInv, NEW l \in Servers, Orphans(l), AtRest, NEW s \in Servers, Managing(s)
    PROVE  \E h \in Survivors :
              /\ \A t \in Survivors : Leads(t) => t = h
              /\ \A p \in Survivors : NextOf(p) = Follower(p)
              /\ \A p, q \in Survivors : p # q => wire[p][q] = <<>>
<1>1. Bereft(l) /\ ~Alive(l) /\ s \in Survivors
  BY DEF Orphans, Bereft, Survivors, Managing, Alive
<1>2. PICK h : h = leader[s]
  OBVIOUS
<1>3. Managing(h) /\ h # l
  BY <1>1, <1>2 DEF AtRest, Managing, Alive
<1>4. h \in Survivors /\ Chief(h)
  <2>1. Chief(h)
    BY <1>1, <1>2, <1>3 DEF Bereft, Heir
  <2> QED BY <2>1 DEF Chief
<1>5. \A t \in Survivors : Leads(t) => t = h
  BY <1>1, <1>4, OneChief
<1>6. \A t \in Survivors : server_peers[t] = Others(t) /\ NextOf(t) = Follower(t)
  BY <1>4 DEF Chief, NextOf, Follower
<1>7. ASSUME NEW p \in Survivors, NEW q \in Survivors, p # q PROVE wire[p][q] = <<>>
  <2>1. q \in Servers /\ Alive(q)
    BY DEF Survivors
  <2>2. state[q] # "panicked"
    <3> SUFFICES ASSUME state[q] = "panicked" PROVE FALSE
      OBVIOUS
    <3>1. Leads(q)
      BY <1>1 DEF Bereft, Heir
    <3>2. q = h
      BY <1>5, <3>1
    <3> QED BY <1>3, <3>2 DEF Managing
  <2>3. Managing(q)
    BY <2>1, <2>2 DEF TypeInv, TypeOK, Alive, Managing
  <2>4. p \in server_peers[q]
    BY <1>6, <1>7 DEF Others
  <2> QED BY <2>1, <2>3, <2>4 DEF AtRest
<1> QED BY <1>4, <1>5, <1>6, <1>7

(* So each has the tables of its follower, but for one of them.            *)
LEMMA RestAgree ==
    ASSUME TypeInv, NEW l \in Servers, Orphans(l), AtRest,
           NEW s \in Servers, NEW t \in Servers, Managing(s), Managing(t)
    PROVE  Shared(tables[s]) = Shared(tables[t])
<1>1. Bereft(l) /\ s \in Survivors /\ t \in Survivors /\ Survivors \subseteq Servers
  BY DEF Orphans, Survivors, Managing, Alive
<1>2. PICK h \in Survivors :
              /\ \A u \in Survivors : Leads(u) => u = h
              /\ \A p \in Survivors : NextOf(p) = Follower(p)
              /\ \A p, q \in Survivors : p # q => wire[p][q] = <<>>
  BY RestLed
<1>3. tables \in [Servers -> Tables]
  BY DEF TypeInv, TypeOK
<1>4. ASSUME NEW p \in Survivors, Follower(p) # None, Follower(p) # h, NEW k \in Keys
      PROVE  View(tables[Follower(p)], k) = View(tables[p], k)
  <2>1. PICK n : n = Follower(p)
    OBVIOUS
  <2>2. n \in Survivors /\ n # p
    BY <1>1, <1>4, <2>1, FollowerIs
  <2>3. ~Leads(n)
    BY <1>2, <1>4, <2>1, <2>2
  <2>4. PICK X \in SUBSET Survivors : Feeds(X, p, l) /\ Behind(p, X)
    BY <1>2, <1>4, <2>1, <2>3 DEF Orphans, Chained
  <2>5. Untouched(X, k)
    <3> SUFFICES ASSUME NEW r \in X PROVE ~Touches(wire[r][Follower(r)], k)
      BY DEF Untouched
    <3>1. Follower(r) \in Survivors /\ Follower(r) # r /\ r \in Survivors
      BY <1>1, <2>4, FedBy
    <3>2. wire[r][Follower(r)] = <<>>
      BY <1>2, <3>1
    <3> QED BY <3>2 DEF Touches
  <2>6. View(Made(tables[n], wire[p][n]), k) = View(tables[p], k)
    BY <2>1, <2>4, <2>5 DEF Behind
  <2>7. Made(tables[n], wire[p][n]) = tables[n]
    <3>1. wire[p][n] = <<>>
      BY <1>2, <2>2
    <3> QED BY <3>1, MadeFew
  <2> QED BY <2>1, <2>6, <2>7
<1>5. PICK z \in Survivors : \A p \in Survivors : p # z /\ Follower(p) # None => Follower(p) # h
  <2>1. CASE \E p \in Survivors : Follower(p) = h
    <3>1. PICK z \in Survivors : Follower(z) = h
      BY <2>1
    <3> QED BY <3>1, FollowerOne
  <2>2. CASE ~\E p \in Survivors : Follower(p) = h
    BY <1>2, <2>2
  <2> QED BY <2>1, <2>2
<1>6. ASSUME NEW k \in Keys PROVE View(tables[s], k) = View(tables[t], k)
  <2>1. PICK f : f = [p \in Servers |-> View(tables[p], k)]
    OBVIOUS
  <2>2. ASSUME NEW p \in Survivors, p # z, Follower(p) # None PROVE f[Follower(p)] = f[p]
    <3>1. p \in Servers /\ Follower(p) \in Servers
      BY <1>1, <2>2, FollowerIs
    <3>2. View(tables[Follower(p)], k) = View(tables[p], k)
      BY <1>4, <1>5, <2>2
    <3> QED BY <2>1, <3>1, <3>2
  <2>3. \A p \in Survivors : f[p] = f[z]
    BY <2>2, OneRound
  <2>4. f[s] = f[t]
    BY <1>1, <2>3
  <2> QED BY <2>1, <2>4
<1>7. Alike(tables[s], tables[t])
  <2>1. tables[s] \in Tables /\ tables[t] \in Tables
    BY <1>3
  <2> QED BY <1>6, <2>1, AlikeViews
<1> QED BY <1>7, SharedAlike

(* What is counted.                                                        *)
Upsets   == {"leader crash", "replica crash", "join", "second join"}
UpsetInv == (disturbances = 0) <=> (faults \cap Upsets = {})

LEMMA OneIsSome == 1 # 0
  OBVIOUS

LEMMA OnceUpset ==
    ASSUME UpsetInv, disturbances = 1, faults \subseteq {"leader crash"}
    PROVE  faults = {"leader crash"}
<1>1. faults \cap Upsets # {}
  <2>1. disturbances # 0
    BY OneIsSome, Zenon
  <2>2. (disturbances = 0) <=> (faults \cap Upsets = {})
    BY Zenon DEF UpsetInv
  <2> QED BY <2>1, <2>2, Zenon
<1>2. PICK fault \in faults : TRUE
  BY <1>1
<1> QED BY <1>2

LEMMA UpsetStep ==
    ASSUME TypeInv, [Next]_vars
    PROVE  \/ disturbances' = disturbances /\ faults' \cap Upsets = faults \cap Upsets
           \/ disturbances' = disturbances + 1 /\ faults' \cap {"join", "second join"} # {}
           \/ /\ disturbances' = disturbances + 1
              /\ \E s \in Servers :
                    Crash(s) /\ faults' \cap {"leader crash", "replica crash"} # {}
<1>1. ASSUME NEW s \in Servers, ClientMessage(s)
      PROVE  disturbances' = disturbances /\ faults' \cap Upsets = faults \cap Upsets
  <2>1. disturbances' = disturbances /\ faults \subseteq faults' /\ faults' \subseteq faults \cup {"stray"}
    BY <1>1, ClientTurns DEF ClientTurn, Frame, Offers, Panics, bounds
  <2> QED BY <2>1 DEF Upsets
<1>2. ASSUME NEW s \in Servers, PeerMessage(s) PROVE UNCHANGED <<disturbances, faults>>
  BY <1>2 DEF PeerMessage, ReceiveUpdate, GotLeaderFromPeer, Overtaken, PeerDisconnected,
              bounds
<1>3. ASSUME NEW p \in Servers, Start(p)
      PROVE  disturbances' = disturbances + 1 /\ faults' \cap {"join", "second join"} # {}
  BY <1>3 DEF Start
<1>4. CASE Join
  <2>1. (\E p \in Servers : Start(p)) \/ UNCHANGED <<disturbances, faults>>
    BY <1>4 DEF Join, IsPeerConnected, ConnectServerPeer, CreateServerPeer, Register,
                SendLeader, InitLeader, bounds
  <2> QED BY <1>3, <2>1
<1>5. ASSUME NEW s \in Servers, Crash(s)
      PROVE  /\ disturbances' = disturbances + 1
             /\ faults' \cap {"leader crash", "replica crash"} # {}
  BY <1>5 DEF Crash
<1>6. ASSUME NEW s \in Servers, TakeOver(s)
      PROVE  disturbances' = disturbances /\ faults' \cap Upsets = faults \cap Upsets
  BY <1>6 DEF TakeOver, Upsets
<1>7. CASE UNCHANGED vars
  BY <1>7 DEF vars, bounds
<1> QED BY <1>1, <1>2, <1>4, <1>5, <1>6, <1>7 DEF Next

(* From the beginning to the loss of the leader, and from there on.        *)
SurvivorInv ==
    /\ UpsetInv
    /\ faults = {} =>
          \E l \in Servers : Reigns(l) /\ Rounds(l) /\ Follow(l) /\ Settled(l)
    /\ faults = {"leader crash"} /\ disturbances = 1 => \E l \in Servers : Orphans(l)

LEMMA InitSurvivors == Init => SurvivorInv
<1> SUFFICES ASSUME Init PROVE SurvivorInv
  OBVIOUS
<1>1. PICK S, l, known : Begins(S, l, known)
  BY InitBegins
<1>2. l \in Servers /\ Reigns(l) /\ Settled(l)
  BY <1>1, BeginsLed, BeginsSettled
<1>3. faults = {} /\ disturbances = 0
  BY <1>1 DEF Begins
<1>4. Rounds(l) /\ Follow(l)
  <2>1. PICK k \in Servers : Reigns(k) /\ Rounds(k) /\ Follow(k)
    BY <1>3, InitFollow DEF FollowInv
  <2>2. k = l
    BY <1>2, <2>1, DataRingAssumption DEF Reigns, Rules
  <2> QED BY <2>1, <2>2
<1> QED BY <1>2, <1>3, <1>4 DEF SurvivorInv, UpsetInv

LEMMA SurvivorsKept == TypeInv /\ SurvivorInv /\ [Next]_vars => SurvivorInv'
<1> SUFFICES ASSUME TypeInv, SurvivorInv, [Next]_vars PROVE SurvivorInv'
  OBVIOUS
<1>1. /\ faults \subseteq faults'
      /\ \/ disturbances' = disturbances /\ faults' \cap Upsets = faults \cap Upsets
         \/ disturbances' = disturbances + 1 /\ faults' \cap {"join", "second join"} # {}
         \/ /\ disturbances' = disturbances + 1
            /\ \E s \in Servers :
                  Crash(s) /\ faults' \cap {"leader crash", "replica crash"} # {}
  BY UpsetStep, FaultsStay
<1>2. disturbances \in Nat /\ UpsetInv
  <2>1. disturbances \in 0 .. MaxDisturbances
    BY DEF TypeInv, TypeOK
  <2>2. UpsetInv
    BY DEF SurvivorInv
  <2> QED BY <2>1, <2>2
<1>3. UpsetInv'
  <2>1. disturbances + 1 # 0
    BY <1>2
  <2> QED BY <1>1, <1>2, <2>1 DEF UpsetInv, Upsets
<1>4. ASSUME faults' = {}
      PROVE  \E l \in Servers : Reigns(l)' /\ Rounds(l)' /\ Follow(l)' /\ Settled(l)'
  <2>1. faults = {} /\ disturbances' = disturbances
    BY <1>1, <1>4
  <2>2. PICK l \in Servers : Reigns(l) /\ Rounds(l) /\ Follow(l) /\ Settled(l)
    BY <2>1 DEF SurvivorInv
  <2>3. Reigns(l)' /\ Rounds(l)'
    BY <1>4, <2>2, LeadStep, RoundStep
  <2>4. Follow(l)' /\ Settled(l)'
    BY <1>4, <2>1, <2>2, FollowStep, SettledStep
  <2> QED BY <2>3, <2>4
<1>5. ASSUME faults' = {"leader crash"}, disturbances' = 1
      PROVE  \E l \in Servers : Orphans(l)'
  <2>1. CASE disturbances' = disturbances
    <3>1. faults = {"leader crash"} /\ disturbances = 1
      <4>1. disturbances = 1 /\ faults \subseteq {"leader crash"}
        BY <1>1, <1>5, <2>1
      <4> QED BY <1>2, <4>1, OnceUpset
    <3>2. PICK l \in Servers : Orphans(l)
      BY <3>1 DEF SurvivorInv
    <3> QED BY <1>5, <2>1, <3>2, OrphanStep
  <2>2. CASE disturbances' # disturbances
    <3>1. PICK s \in Servers : Crash(s)
      BY <1>1, <1>5, <2>2
    <3>2. disturbances = 0
      <4>1. disturbances + 1 = 1
        BY <1>1, <1>5, <2>2
      <4>2. disturbances \in Nat
        BY <1>2
      <4> HIDE <1>2
      <4> QED BY <4>1, <4>2
    <3>3. faults = {}
      BY <1>1, <1>2, <1>5, <3>2 DEF UpsetInv, Upsets
    <3>4. PICK l \in Servers : Reigns(l) /\ Rounds(l) /\ Follow(l) /\ Settled(l)
      BY <3>3 DEF SurvivorInv
    <3>5. "replica crash" \notin faults'
      BY <1>5
    <3> QED BY <3>1, <3>4, <3>5, CrashOrphans
  <2> QED BY <2>1, <2>2
<1> QED BY <1>3, <1>4, <1>5 DEF SurvivorInv

(* When the leader, and nobody else, has died, no survivor took over while *)
(* some of what it had written was on its way between the others, and the  *)
(* ring has come to rest, the survivors have the same tables: updates that *)
(* cross with the election, or go round without a leader, are made again by*)
(* all or by none.                                                         *)
THEOREM SurvivorsCorrect == Spec => []SurvivorsAgree
<1>1. TypeInv /\ SurvivorInv => SurvivorsAgree
  <2> SUFFICES ASSUME TypeInv, SurvivorInv, faults \subseteq {"leader crash"},
                      disturbances = 1, AtRest,
                      NEW s \in Servers, NEW t \in Servers, Managing(s), Managing(t)
               PROVE  Shared(tables[s]) = Shared(tables[t])
    BY DEF SurvivorsAgree
  <2>1. faults = {"leader crash"}
    BY OnceUpset DEF SurvivorInv
  <2>2. PICK l \in Servers : Orphans(l)
    BY <2>1 DEF SurvivorInv
  <2> QED BY <2>2, RestAgree
<1> QED BY <1>1, InitType, StepType, InitSurvivors, SurvivorsKept, PTL DEF Spec
=============================================================================
