--------------------------- MODULE WsServerProofs ---------------------------
(***************************************************************************)
(* The WebSocket server and the application behind it: results reach the   *)
(* client that sent the order, subscribers see every update, and orders    *)
(* are submitted for the owner of the connection, for every number of      *)
(* descriptors, connections and clients, however descriptors are reused    *)
(* and wherever a write breaks off.                                        *)
(***************************************************************************)
EXTENDS WsServer, TLAPS

Item == Frame \union {Payload} \union FirstRequest

OutItem ==
    [kind : {"result"}, id : Nat, n : Nat] \union [kind : {"update"}, n : Nat]
        \union [kind : {"reply", "pong", "close", "400", "101"}]

Owners == User \union {None, Nobody, Anonymous}

Conn ==
    [id : Nat \ {0}, agg : BOOLEAN, shake : Handshake \union {None}, open : BOOLEAN,
     in : Seq(Item), out : Seq(OutItem), writing : BOOLEAN, closing : BOOLEAN,
     closed : BOOLEAN, parts : Nat, sent : Nat, since : Nat]

Submitted == [fd : Fd, id : Nat, n : Nat, owner : Owners]

Running ==
    {Idle, Undefined} \union [at : {"frames"}, fd : Fd, more : BOOLEAN]
        \union [at : {"broadcast"}, todo : SUBSET (Nat \X Fd)]

\* The state of the server is of the types its code declares.
WsTypeOK ==
    /\ conn \in [Fd -> Conn \union {NoConn}]
    /\ next_conn_id \in Nat \ {0}
    /\ rx \in [Fd -> Seq(Item)]
    /\ ctl \in Running
    /\ orders \in SUBSET Submitted
    /\ resolving \in SUBSET [id : Nat, shake : Handshake]
    /\ conn_owner \in SUBSET (Nat \X Owners)
    /\ conn_perframe \in SUBSET Nat
    /\ md_subscribers \in SUBSET (Nat \X Fd)
    /\ received \in [Fd -> Seq(OutItem)]
    /\ updates \in Nat

\* Connections have different ids, from those handed out.
IdsAreUnique ==
    /\ \A f \in Fd : conn[f] # NoConn => conn[f].id < next_conn_id
    /\ \A f, g \in Fd : conn[f] # NoConn /\ conn[g] # NoConn /\ conn[f].id = conn[g].id => f = g

\* Nothing is kept, or under way, for an id that is still to be handed out.
IdsAreOld ==
    /\ \A o \in orders : o.id < next_conn_id
    /\ \A r \in resolving : r.id < next_conn_id
    /\ \A e \in conn_owner : e[1] < next_conn_id
    /\ \A i \in conn_perframe : i < next_conn_id
    /\ \A s \in md_subscribers : s[1] < next_conn_id

\* The handler of a connection's input runs while the connection is open.
HandlerIsOpen == ctl.at = "frames" => Open(ctl.fd)

\* Every mechanism that is enabled agrees on the owner.
Agreed(owner, h) == (AuthHeader => owner = h.header) /\ (AuthHelper => owner = h.cred)

\* What is kept about the identity of connection c fits its handshake.
Identified(c) ==
    /\ c.id \in conn_perframe => c.open /\ c.shake.header = None /\ c.shake.cred = None
    /\ \A e \in conn_owner : e[1] = c.id => c.open /\ Agreed(e[2], c.shake)
    /\ \A r \in resolving : r.id = c.id => c.open /\ r.shake = c.shake

IdentitiesFit ==
    /\ \A r \in resolving : Asks(r.shake)
    /\ \A f \in Fd : conn[f] # NoConn => Identified(conn[f])

\* How the number of an item of kind k fits behind an earlier one's: updates are
\* in order, results are of different orders.
Follows(k, m, n) == IF k = "update" THEN m < n ELSE m # n

Orderly(items, k) ==
    \A i, j \in DOMAIN items :
        i < j /\ items[i].kind = k /\ items[j].kind = k => Follows(k, items[i].n, items[j].n)

Noteworthy(x) == x.kind \in {"result", "update"}

\* The results and updates among the items.
Notes(items) == {items[i] : i \in {j \in DOMAIN items : Noteworthy(items[j])}}

\* The orders that wait are of those the connection sent, and it was given no
\* result of them.
OrdersWait(c, items) ==
    /\ \A x \in Notes(items) : x.kind = "result" => x.id = c.id /\ x.n <= c.sent
    /\ Orderly(items, "result")
    /\ \A o \in orders : o.id = c.id =>
          /\ o.n <= c.sent
          /\ \A x \in Notes(items) : x.kind = "result" => x.n # o.n

ResultsFit ==
    /\ \A o, p \in orders : o.id = p.id /\ o.n = p.n => o = p
    /\ \A f \in Fd : conn[f] # NoConn => OrdersWait(conn[f], Sent(f))

\* Updates come in order, and none before it is made.
UpdatesInOrder ==
    \A f \in Fd : conn[f] # NoConn =>
        /\ \A x \in Notes(Sent(f)) : x.kind = "update" => x.n <= updates
        /\ Orderly(Sent(f), "update")

\* The connections a broadcast has yet to reach.
Todo == IF ctl.at = "broadcast" THEN ctl.todo ELSE {}

\* Subscriber s has every update since it subscribed, the one being broadcast
\* excepted if its turn is still to come.
SeesAll(s) ==
    \A m \in (conn[s[2]].since + 1)..(IF s \in Todo THEN updates - 1 ELSE updates) :
        \E x \in Notes(Sent(s[2])) : x.kind = "update" /\ x.n = m

SubscribersInv ==
    /\ \A s \in md_subscribers : Open(s[2]) /\ conn[s[2]].open /\ conn[s[2]].id = s[1]
    /\ ctl # Undefined => \A s \in md_subscribers : SeesAll(s)
    /\ ctl.at = "broadcast" => updates > 0
    /\ \A s \in Todo :
          conn[s[2]] # NoConn /\ conn[s[2]].id = s[1] =>
              \A x \in Notes(Sent(s[2])) : x.kind = "update" => x.n < updates
    /\ \A f \in Fd : conn[f] = NoConn => received[f] = <<>>

WsInv ==
    /\ WsTypeOK /\ IdsAreUnique /\ IdsAreOld /\ HandlerIsOpen /\ IdentitiesFit
    /\ ResultsFit /\ UpdatesInOrder /\ SubscribersInv

-----------------------------------------------------------------------------
(* What a client was sent, as a list of items.                             *)

Noteworthies == {"result", "update"}

\* A client's items stay items when one is added.
LEMMA ItemAppended == \A s \in Seq(OutItem), x \in OutItem : Append(s, x) \in Seq(OutItem)
OBVIOUS

\* The results and updates of two lists, one after the other.
LEMMA NotesConcat ==
    ASSUME NEW s \in Seq(OutItem), NEW t \in Seq(OutItem)
    PROVE  s \o t \in Seq(OutItem) /\ Notes(s \o t) = Notes(s) \union Notes(t)
<1>1. PICK q : q = s \o t
    BY Zenon
<1>2. /\ q \in Seq(OutItem) /\ Len(s) \in Nat /\ Len(t) \in Nat
      /\ DOMAIN s = 1..Len(s) /\ DOMAIN t = 1..Len(t) /\ DOMAIN q = 1..(Len(s) + Len(t))
      /\ \A i \in DOMAIN s : q[i] = s[i]
      /\ \A i \in DOMAIN t : q[Len(s) + i] = t[i]
    BY <1>1
<1>3. ASSUME NEW x \in Notes(q) PROVE x \in Notes(s) \union Notes(t)
  <2>1. PICK i \in DOMAIN q : Noteworthy(q[i]) /\ x = q[i]
      BY <1>3, Zenon DEF Notes
  <2>2. CASE i <= Len(s)
      BY <1>2, <2>1, <2>2 DEF Notes
  <2>3. CASE ~(i <= Len(s))
    <3>1. i - Len(s) \in DOMAIN t /\ q[i] = t[i - Len(s)]
        BY <1>2, <2>1, <2>3
    <3> QED
        BY <2>1, <3>1, Zenon DEF Notes
  <2> QED
      BY <2>2, <2>3, Zenon
<1>4. ASSUME NEW x \in Notes(s) PROVE x \in Notes(q)
  <2>1. PICK i \in DOMAIN s : Noteworthy(s[i]) /\ x = s[i]
      BY <1>4, Zenon DEF Notes
  <2>2. i \in DOMAIN q /\ q[i] = s[i]
      BY <1>2, <2>1
  <2> QED
      BY <2>1, <2>2, Zenon DEF Notes
<1>5. ASSUME NEW x \in Notes(t) PROVE x \in Notes(q)
  <2>1. PICK i \in DOMAIN t : Noteworthy(t[i]) /\ x = t[i]
      BY <1>5, Zenon DEF Notes
  <2>2. Len(s) + i \in DOMAIN q /\ q[Len(s) + i] = t[i]
      BY <1>2, <2>1
  <2> QED
      BY <2>1, <2>2, Zenon DEF Notes
<1> QED
    BY <1>1, <1>2, <1>3, <1>4, <1>5, Zenon

\* Every item of kind k in t fits behind every one in s.
Precede(s, t, k) ==
    \A x \in Notes(s), y \in Notes(t) : x.kind = k /\ y.kind = k => Follows(k, x.n, y.n)

\* A list is orderly when its two parts are, one behind the other.
LEMMA OrderlyConcat ==
    ASSUME NEW s \in Seq(OutItem), NEW t \in Seq(OutItem), NEW k \in Noteworthies
    PROVE  Orderly(s \o t, k) <=> Orderly(s, k) /\ Orderly(t, k) /\ Precede(s, t, k)
<1>1. PICK q : q = s \o t
    BY Zenon
<1>2. /\ q \in Seq(OutItem) /\ Len(s) \in Nat /\ Len(t) \in Nat
      /\ DOMAIN s = 1..Len(s) /\ DOMAIN t = 1..Len(t) /\ DOMAIN q = 1..(Len(s) + Len(t))
      /\ \A i \in DOMAIN s : q[i] = s[i]
      /\ \A i \in DOMAIN t : q[Len(s) + i] = t[i]
    BY <1>1
<1>3. ASSUME Orderly(q, k) PROVE Orderly(s, k) /\ Orderly(t, k) /\ Precede(s, t, k)
  <2>1. Orderly(s, k)
      BY <1>2, <1>3 DEF Orderly
  <2>2. Orderly(t, k)
    <3> SUFFICES ASSUME NEW i \in DOMAIN t, NEW j \in DOMAIN t, i < j, t[i].kind = k, t[j].kind = k
                 PROVE  Follows(k, t[i].n, t[j].n)
        BY Zenon DEF Orderly
    <3>1. /\ Len(s) + i \in DOMAIN q /\ Len(s) + j \in DOMAIN q /\ Len(s) + i < Len(s) + j
          /\ q[Len(s) + i] = t[i] /\ q[Len(s) + j] = t[j]
        BY <1>2
    <3> QED
        BY <1>3, <3>1, Zenon DEF Orderly
  <2>3. Precede(s, t, k)
    <3> SUFFICES ASSUME NEW x \in Notes(s), NEW y \in Notes(t), x.kind = k, y.kind = k
                 PROVE  Follows(k, x.n, y.n)
        BY Zenon DEF Precede
    <3>1. PICK i \in DOMAIN s : x = s[i]
        BY Zenon DEF Notes
    <3>2. PICK j \in DOMAIN t : y = t[j]
        BY Zenon DEF Notes
    <3>3. i \in DOMAIN q /\ Len(s) + j \in DOMAIN q /\ i < Len(s) + j /\ q[i] = x /\ q[Len(s) + j] = y
        BY <1>2, <3>1, <3>2
    <3> QED
        BY <1>3, <3>3, Zenon DEF Orderly
  <2> QED
      BY <2>1, <2>2, <2>3, Zenon
<1>4. ASSUME Orderly(s, k), Orderly(t, k), Precede(s, t, k) PROVE Orderly(q, k)
  <2> SUFFICES ASSUME NEW i \in DOMAIN q, NEW j \in DOMAIN q, i < j, q[i].kind = k, q[j].kind = k
               PROVE  Follows(k, q[i].n, q[j].n)
      BY Zenon DEF Orderly
  <2>1. CASE j <= Len(s)
      BY <1>2, <1>4, <2>1 DEF Orderly
  <2>2. CASE i > Len(s)
    <3>1. /\ i - Len(s) \in DOMAIN t /\ j - Len(s) \in DOMAIN t /\ i - Len(s) < j - Len(s)
          /\ q[i] = t[i - Len(s)] /\ q[j] = t[j - Len(s)]
        BY <1>2, <2>2, SMTT(30)
    <3> QED
        BY <1>4, <3>1, Zenon DEF Orderly
  <2>3. CASE i <= Len(s) /\ j > Len(s)
    <3>1. i \in DOMAIN s /\ j - Len(s) \in DOMAIN t /\ q[i] = s[i] /\ q[j] = t[j - Len(s)]
        BY <1>2, <2>3, SMTT(30)
    <3>2. q[i] \in Notes(s) /\ q[j] \in Notes(t)
        BY <3>1, Zenon DEF Notes, Noteworthy, Noteworthies
    <3> QED
        BY <1>4, <3>2, Zenon DEF Precede
  <2> QED
      BY <1>2, <2>1, <2>2, <2>3
<1> QED
    BY <1>1, <1>3, <1>4, Zenon

\* One more item is a result or an update, or neither.
LEMMA NotesOfOne ==
    ASSUME NEW x \in OutItem
    PROVE  /\ <<x>> \in Seq(OutItem)
           /\ Notes(<<x>>) = IF Noteworthy(x) THEN {x} ELSE {}
           /\ \A k : Orderly(<<x>>, k)
<1>1. PICK q : q = <<x>>
    BY Zenon
<1>2. q \in Seq(OutItem) /\ DOMAIN q = {1} /\ q[1] = x
    BY <1>1
<1>3. Notes(q) = IF Noteworthy(x) THEN {x} ELSE {}
    BY <1>2, Zenon DEF Notes
<1>4. \A k : Orderly(q, k)
    BY <1>2 DEF Orderly
<1> QED
    BY <1>1, <1>2, <1>3, <1>4, Zenon

-----------------------------------------------------------------------------
(* Steps of the server that change one connection.                         *)

\* Connection f changes, no other does, and its client has `new` sent or waiting
\* besides what it had.
Changed(f, new) ==
    /\ conn[f] \in Conn /\ conn'[f] \in Conn /\ conn'[f].id = conn[f].id
    /\ conn' \in [Fd -> Conn \union {NoConn}] /\ received' \in [Fd -> Seq(OutItem)]
    /\ \A g \in Fd \ {f} : conn'[g] = conn[g] /\ received'[g] = received[g]
    /\ Notes(Sent(f))' = Notes(Sent(f)) \union new
    /\ \A k \in Noteworthies :
          /\ Orderly(Sent(f), k)
          /\ \A x \in Notes(Sent(f)), y \in new : x.kind = k /\ y.kind = k => Follows(k, x.n, y.n)
          => Orderly(Sent(f), k)'

\* The maps of AppServer are these, less what a close takes out.
Forgets(f, owners, perframe, subs) ==
    /\ conn_owner' \in SUBSET owners /\ conn_perframe' \in SUBSET perframe
    /\ md_subscribers' \in SUBSET subs
    /\ conn'[f].closed /\ ~conn[f].closed => \A s \in md_subscribers' : s[1] # conn'[f].id

\* The connection keeps what identifies it and what it subscribed to.
Alike(q, p) ==
    /\ q.shake = p.shake /\ q.open = p.open /\ q.sent = p.sent /\ q.since = p.since
    /\ p.closed => q.closed

\* No connection has the id 0.
LEMMA ConnIsNotNone == NoConn \notin Conn
BY Zenon DEF NoConn, Conn

\* Lists put one behind the other, and a list cut in two.
LEMMA ConcatAssoc ==
    ASSUME NEW r \in Seq(OutItem), NEW s \in Seq(OutItem), NEW t \in Seq(OutItem)
    PROVE  r \o (s \o t) = (r \o s) \o t
<1>1. PICK a, b, c, d : a = s \o t /\ b = r \o a /\ c = r \o s /\ d = c \o t
    BY Zenon
<1>2. /\ a \in Seq(OutItem) /\ c \in Seq(OutItem) /\ Len(a) = Len(s) + Len(t) /\ Len(c) = Len(r) + Len(s)
      /\ \A i \in 1..Len(a) : a[i] = IF i <= Len(s) THEN s[i] ELSE t[i - Len(s)]
      /\ \A i \in 1..Len(c) : c[i] = IF i <= Len(r) THEN r[i] ELSE s[i - Len(r)]
      /\ Len(r) \in Nat /\ Len(s) \in Nat /\ Len(t) \in Nat
    BY <1>1
<1>3. /\ b \in Seq(OutItem) /\ Len(b) = Len(r) + Len(a)
      /\ \A i \in 1..Len(b) : b[i] = IF i <= Len(r) THEN r[i] ELSE a[i - Len(r)]
    BY <1>1, <1>2
<1>4. /\ d \in Seq(OutItem) /\ Len(d) = Len(c) + Len(t)
      /\ \A i \in 1..Len(d) : d[i] = IF i <= Len(c) THEN c[i] ELSE t[i - Len(c)]
    BY <1>1, <1>2
<1>5. Len(b) = Len(d) /\ \A i \in 1..Len(b) : b[i] = d[i]
  <2>1. Len(b) = Len(d)
      BY <1>2, <1>3, <1>4
  <2>2. ASSUME NEW i \in 1..Len(b) PROVE b[i] = d[i]
    <3>0. i \in 1..Len(d) /\ i \in Nat /\ Len(b) = Len(r) + (Len(s) + Len(t))
        BY <1>2, <1>3, <2>1
    <3>1. CASE i <= Len(r)
      <4>1. b[i] = r[i]
          BY <1>3, <3>1, Zenon
      <4>2. i \in 1..Len(c) /\ i <= Len(c)
          BY <1>2, <3>0, <3>1
      <4>3. d[i] = c[i] /\ c[i] = r[i]
          BY <1>2, <1>4, <3>0, <3>1, <4>2, Zenon
      <4> QED
          BY <4>1, <4>3, Zenon
    <3>2. CASE ~(i <= Len(r)) /\ i <= Len(r) + Len(s)
      <4>1. i - Len(r) \in 1..Len(a) /\ i - Len(r) <= Len(s) /\ i \in 1..Len(c) /\ i <= Len(c)
          BY <1>2, <3>0, <3>2
      <4>2. b[i] = a[i - Len(r)] /\ a[i - Len(r)] = s[i - Len(r)]
          BY <1>2, <1>3, <3>2, <4>1, Zenon
      <4>3. d[i] = c[i] /\ c[i] = s[i - Len(r)]
          BY <1>2, <1>4, <3>0, <3>2, <4>1, Zenon
      <4> QED
          BY <4>2, <4>3, Zenon
    <3>3. CASE ~(i <= Len(r) + Len(s))
      <4>1. /\ i - Len(r) \in 1..Len(a) /\ ~(i - Len(r) <= Len(s)) /\ ~(i <= Len(c)) /\ ~(i <= Len(r))
            /\ (i - Len(r)) - Len(s) = i - Len(c)
          BY <1>2, <3>0, <3>3
      <4>2. b[i] = a[i - Len(r)] /\ a[i - Len(r)] = t[(i - Len(r)) - Len(s)]
          BY <1>2, <1>3, <3>3, <4>1, Zenon
      <4>3. d[i] = t[i - Len(c)]
          BY <1>4, <3>0, <4>1, Zenon
      <4> QED
          BY <4>1, <4>2, <4>3, Zenon
    <3> QED
        BY <3>1, <3>2, <3>3, Zenon
  <2> QED
      BY <2>1, <2>2, Zenon
<1>6. b = d
  <2>1. b \in Seq(OutItem) /\ d \in Seq(OutItem)
      BY <1>3, <1>4, Zenon
  <2>2. b = [i \in 1..Len(b) |-> b[i]] /\ d = [i \in 1..Len(d) |-> d[i]]
      BY <2>1
  <2> QED
      BY <1>5, <2>2, Zenon
<1> QED
    BY <1>1, <1>6, Zenon

\* A write that sends part of the buffer cuts it in two.
LEMMA CutInTwo ==
    ASSUME NEW s \in Seq(OutItem), NEW n \in 0..Len(s)
    PROVE  /\ SubSeq(s, 1, n) \in Seq(OutItem) /\ SubSeq(s, n + 1, Len(s)) \in Seq(OutItem)
           /\ s = SubSeq(s, 1, n) \o SubSeq(s, n + 1, Len(s))
<1>1. PICK a, b, c : a = SubSeq(s, 1, n) /\ b = SubSeq(s, n + 1, Len(s)) /\ c = a \o b
    BY Zenon
<1>2. a \in Seq(OutItem) /\ Len(a) = n /\ \A i \in 1..n : a[i] = s[i]
    BY <1>1
<1>3. b \in Seq(OutItem) /\ Len(b) = Len(s) - n /\ \A i \in 1..Len(b) : b[i] = s[n + i]
    BY <1>1
<1>0. Len(s) \in Nat /\ n \in Nat /\ n <= Len(s)
    OBVIOUS
<1>4. /\ c \in Seq(OutItem) /\ Len(c) = Len(s)
      /\ \A i \in 1..Len(c) : c[i] = IF i <= n THEN a[i] ELSE b[i - n]
  <2>1. a \in Seq(OutItem) /\ b \in Seq(OutItem) /\ Len(a) = n /\ Len(b) = Len(s) - n
      BY <1>2, <1>3, Zenon
  <2>2. c = a \o b
      BY <1>1, Zenon
  <2>3. /\ c \in Seq(OutItem) /\ Len(c) = Len(a) + Len(b)
        /\ \A i \in 1..Len(c) : c[i] = IF i <= Len(a) THEN a[i] ELSE b[i - Len(a)]
    <3>1. a \in Seq(OutItem) /\ b \in Seq(OutItem)
        BY <2>1, Zenon
    <3> QED
        BY <2>2, <3>1
  <2>4. Len(a) + Len(b) = Len(s)
      BY <1>0, <2>1
  <2>5. Len(c) = Len(s)
      BY <2>3, <2>4, Zenon
  <2> QED
      BY <2>1, <2>3, <2>5, Zenon
<1>5. ASSUME NEW i \in 1..Len(s)
      PROVE  c[i] = s[i]
  <2>1. c[i] = IF i <= n THEN a[i] ELSE b[i - n]
      BY <1>4, Zenon
  <2>2. CASE i <= n
    <3>1. i \in 1..n
        BY <1>0, <2>2
    <3> QED
        BY <1>2, <2>1, <2>2, <3>1, Zenon
  <2>3. CASE ~(i <= n)
    <3>1. i - n \in 1..(Len(s) - n) /\ n + (i - n) = i
        BY <1>0, <2>3
    <3> QED
        BY <1>3, <2>1, <2>3, <3>1, Zenon
  <2> QED
      BY <2>2, <2>3, Zenon
<1>6. c = s
    BY <1>4, <1>5
<1> QED
    BY <1>1, <1>2, <1>3, <1>6, Zenon

\* A step that leaves what was sent alone, or has one more item waiting.
LEMMA PutIs ==
    ASSUME WsTypeOK, NEW f \in Fd, conn[f] \in Conn, NEW p \in Conn, p.id = conn[f].id,
           NEW w \in Seq(OutItem), p.out = conn[f].out \o w, \A k \in Noteworthies : Orderly(w, k),
           NEW owners, NEW perframe, NEW subs, Put(f, p, owners, perframe, subs),
           received' = received
    PROVE  Changed(f, Notes(w)) /\ Forgets(f, owners, perframe, subs) /\ conn'[f] = p
<1>1. /\ conn \in [Fd -> Conn \union {NoConn}] /\ received[f] \in Seq(OutItem)
      /\ received \in [Fd -> Seq(OutItem)] /\ conn[f].out \in Seq(OutItem)
    BY Zenon DEF WsTypeOK, Conn
<1>2. conn'[f] = p /\ conn' \in [Fd -> Conn \union {NoConn}] /\ \A g \in Fd \ {f} : conn'[g] = conn[g]
    BY <1>1, Zenon DEF Put
<1>3. Forgets(f, owners, perframe, subs)
    BY <1>2, Zenon DEF Put, Forgets
<1>4. PICK s, t : s = Sent(f) /\ t = Sent(f)'
    BY Zenon
<1>5. s = received[f] \o conn[f].out /\ t = received[f] \o (conn[f].out \o w)
    BY <1>2, <1>4, Zenon DEF Sent
<1>6. s \in Seq(OutItem) /\ t = s \o w
  <2>0. PICK r, o : r = received[f] /\ o = conn[f].out
      BY Zenon
  <2>1. r \o (o \o w) = (r \o o) \o w
    <3>1. r \in Seq(OutItem) /\ o \in Seq(OutItem)
        BY <1>1, <2>0, Zenon
    <3> QED
        BY <3>1, ConcatAssoc, Zenon
  <2>2. s \in Seq(OutItem)
      BY <1>1, <1>5
  <2> QED
      BY <1>5, <2>0, <2>1, <2>2, Zenon
<1>7. Notes(t) = Notes(s) \union Notes(w)
    BY <1>6, NotesConcat, Zenon
<1>8. ASSUME NEW k \in Noteworthies, Orderly(s, k),
             \A x \in Notes(s), y \in Notes(w) : x.kind = k /\ y.kind = k => Follows(k, x.n, y.n)
      PROVE  Orderly(t, k)
    BY <1>6, <1>8, OrderlyConcat, Zenon DEF Precede
<1> QED
    BY <1>1, <1>2, <1>3, <1>4, <1>7, <1>8, Zenon DEF Changed

\* on_writable: a write that takes part of what waits, or fails.
LEMMA FlushIs ==
    ASSUME WsTypeOK, NEW f \in Fd, conn[f] \in Conn, NEW p \in Conn, p.id = conn[f].id,
           NEW w \in Seq(OutItem), p.out = conn[f].out \o w, \A k \in Noteworthies : Orderly(w, k),
           NEW owners, NEW perframe, NEW subs, NEW least \in Nat,
           Flush(f, p, least, owners, perframe, subs)
    PROVE  Changed(f, Notes(w)) /\ Forgets(f, owners, perframe, subs) /\ Alike(conn'[f], p)
<1>1. /\ conn \in [Fd -> Conn \union {NoConn}] /\ received[f] \in Seq(OutItem)
      /\ received \in [Fd -> Seq(OutItem)] /\ conn[f].out \in Seq(OutItem)
    BY Zenon DEF WsTypeOK, Conn
<1>2. CASE Put(f, Failed(p), owners, perframe, subs) /\ UNCHANGED received
  <2>1. Failed(p) \in Conn /\ Failed(p).id = conn[f].id /\ Failed(p).out = p.out /\ Alike(Failed(p), p)
      BY Zenon DEF Failed, Conn, Alike
  <2> QED
      BY <1>2, <2>1, PutIs, Zenon
<1>3. CASE \E n \in least..Len(p.out) :
              /\ Put(f, Written(p, n), owners, perframe, subs)
              /\ received' = [received EXCEPT ![f] = @ \o SubSeq(p.out, 1, n)]
  <2>1. PICK n \in least..Len(p.out) :
              /\ Put(f, Written(p, n), owners, perframe, subs)
              /\ received' = [received EXCEPT ![f] = @ \o SubSeq(p.out, 1, n)]
      BY <1>3, Zenon
  <2>2. PICK a, b, q : a = SubSeq(p.out, 1, n) /\ b = SubSeq(p.out, n + 1, Len(p.out)) /\ q = Written(p, n)
      BY Zenon
  <2>3. p.out \in Seq(OutItem) /\ n \in 0..Len(p.out)
      BY DEF Conn
  <2>4. a \in Seq(OutItem) /\ b \in Seq(OutItem) /\ p.out = a \o b
      BY <2>2, <2>3, CutInTwo, Zenon
  <2>5. q \in Conn /\ q.id = p.id /\ q.out = b /\ Alike(q, p)
    <3>1. (n < Len(p.out)) \in BOOLEAN /\ (p.closed \/ (n = Len(p.out) /\ p.closing)) \in BOOLEAN
        OBVIOUS
    <3>2. q = [p EXCEPT !.out = b, !.writing = n < Len(p.out),
                        !.closed = p.closed \/ (n = Len(p.out) /\ p.closing)]
        BY <2>2, Zenon DEF Written, Conn
    <3> QED
        BY <2>4, <3>1, <3>2, ZenonT(60) DEF Conn, Alike
  <2>6. /\ conn'[f] = q /\ conn' \in [Fd -> Conn \union {NoConn}]
        /\ \A g \in Fd \ {f} : conn'[g] = conn[g]
      BY <1>1, <2>1, <2>2, <2>5, Zenon DEF Put
  <2>7. Forgets(f, owners, perframe, subs)
      BY <2>1, <2>2, <2>6, Zenon DEF Put, Forgets
  <2>8. /\ received'[f] = received[f] \o a /\ received' \in [Fd -> Seq(OutItem)]
        /\ \A g \in Fd \ {f} : received'[g] = received[g]
    <3>1. PICK m : m = received[f] \o a
        BY Zenon
    <3>2. received' = [received EXCEPT ![f] = m]
        BY <2>1, <2>2, <3>1, Zenon
    <3>3. m \in Seq(OutItem)
        BY <1>1, <2>4, <3>1
    <3> QED
        BY <1>1, <3>1, <3>2, <3>3, Zenon
  <2>9. PICK r, o, s, t : r = received[f] /\ o = conn[f].out /\ s = Sent(f) /\ t = Sent(f)'
      BY Zenon
  <2>10. r \in Seq(OutItem) /\ o \in Seq(OutItem) /\ s = r \o o /\ t = (r \o a) \o b
      BY <1>1, <2>5, <2>6, <2>8, <2>9, Zenon DEF Sent
  <2>11. s \in Seq(OutItem) /\ t = s \o w
    <3>1. (r \o a) \o b = r \o (a \o b)
        BY <2>4, <2>10, ConcatAssoc, ZenonT(60)
    <3>2. (r \o o) \o w = r \o (o \o w)
        BY <2>10, ConcatAssoc, Zenon
    <3>3. a \o b = o \o w
        BY <2>4, <2>9, Zenon
    <3>4. s \in Seq(OutItem)
        BY <2>10
    <3> QED
        BY <2>10, <3>1, <3>2, <3>3, <3>4, Zenon
  <2>12. Notes(t) = Notes(s) \union Notes(w)
      BY <2>11, NotesConcat, Zenon
  <2>13. ASSUME NEW k \in Noteworthies, Orderly(s, k),
               \A x \in Notes(s), y \in Notes(w) : x.kind = k /\ y.kind = k => Follows(k, x.n, y.n)
         PROVE  Orderly(t, k)
      BY <2>11, <2>13, OrderlyConcat, Zenon DEF Precede
  <2>14. Changed(f, Notes(w))
      BY <2>5, <2>6, <2>8, <2>9, <2>12, <2>13, Zenon DEF Changed
  <2> QED
      BY <2>5, <2>6, <2>7, <2>14, Zenon
<1> QED
    BY <1>2, <1>3, Zenon DEF Flush

\* send_text: the item is sent or waits behind the others.
LEMMA SendTextIs ==
    ASSUME WsTypeOK, NEW f \in Fd, conn[f] \in Conn, NEW c \in Conn, c.id = conn[f].id,
           c.out = conn[f].out, NEW item \in OutItem, NEW owners, NEW perframe, NEW subs,
           SendText(f, c, item, owners, perframe, subs)
    PROVE  /\ Changed(f, IF Noteworthy(item) THEN {item} ELSE {})
           /\ Forgets(f, owners, perframe, subs) /\ Alike(conn'[f], c)
<1>1. PICK w, p : w = <<item>> /\ p = [c EXCEPT !.out = Append(@, item)]
    BY Zenon
<1>2. /\ w \in Seq(OutItem) /\ Notes(w) = (IF Noteworthy(item) THEN {item} ELSE {})
      /\ \A k \in Noteworthies : Orderly(w, k)
    BY <1>1, NotesOfOne, Zenon
<1>3. conn[f].out \in Seq(OutItem)
    BY Zenon DEF Conn
<1>4. Append(conn[f].out, item) = conn[f].out \o w /\ conn[f].out \o w \in Seq(OutItem)
    BY <1>1, <1>2, <1>3
<1>5. p \in Conn /\ p.id = conn[f].id /\ p.out = conn[f].out \o w /\ \A q : Alike(q, p) => Alike(q, c)
    BY <1>1, <1>4, Zenon DEF Conn, Alike
<1>6. Flush(f, p, 0, owners, perframe, subs)
    BY <1>1, Zenon DEF SendText
<1>7. Changed(f, Notes(w)) /\ Forgets(f, owners, perframe, subs) /\ Alike(conn'[f], p)
    BY <1>2, <1>5, <1>6, FlushIs, Zenon
<1> QED
    BY <1>2, <1>5, <1>7, Zenon

-----------------------------------------------------------------------------
(* What such a step keeps, part by part.                                   *)

\* What is new in the maps, and among what is under way, is of connection f.
Belongs(f) ==
    /\ \A o \in orders' : o.id = conn[f].id \/ o \in orders
    /\ \A r \in resolving' : r.id = conn[f].id \/ r \in resolving
    /\ \A e \in conn_owner' : e[1] = conn[f].id \/ e \in conn_owner
    /\ \A i \in conn_perframe' : i = conn[f].id \/ i \in conn_perframe
    /\ \A s \in md_subscribers' : s = <<conn[f].id, f>> \/ s \in md_subscribers

\* Another connection, and what its client was sent, stays as it was.
LEMMA OthersStay ==
    ASSUME WsTypeOK, IdsAreUnique, NEW f \in Fd, NEW new, Changed(f, new), NEW g \in Fd \ {f},
           conn[g] # NoConn
    PROVE  conn'[g] = conn[g] /\ Sent(g)' = Sent(g) /\ conn[g].id # conn[f].id /\ conn[g] \in Conn
BY ConnIsNotNone, Zenon DEF WsTypeOK, IdsAreUnique, Changed, Sent

\* A step at one descriptor keeps the connections' ids distinct and old.
LEMMA IdsKept ==
    ASSUME WsTypeOK, IdsAreUnique, IdsAreOld, NEW f \in Fd, NEW new, Changed(f, new), Belongs(f),
           next_conn_id' = next_conn_id
    PROVE  IdsAreUnique' /\ IdsAreOld'
<1>1. conn[f] # NoConn /\ conn[f].id < next_conn_id
    BY ConnIsNotNone, Zenon DEF Changed, IdsAreUnique
<1>2. \A g \in Fd : conn'[g] # NoConn => conn[g] # NoConn /\ conn'[g].id = conn[g].id
    BY <1>1, Zenon DEF Changed
<1>3. IdsAreUnique'
    BY <1>2, Zenon DEF IdsAreUnique
<1>4. IdsAreOld'
    BY <1>1 DEF IdsAreOld, Belongs
<1> QED
    BY <1>3, <1>4, Zenon

\* A step at one descriptor keeps what is known of the connections' users.
LEMMA IdentitiesKept ==
    ASSUME WsTypeOK, IdsAreUnique, IdentitiesFit, NEW f \in Fd, NEW new, Changed(f, new), Belongs(f),
           \A r \in resolving' : Asks(r.shake), Identified(conn[f])'
    PROVE  IdentitiesFit'
<1>1. ASSUME NEW g \in Fd, conn'[g] # NoConn PROVE Identified(conn[g])'
  <2>1. CASE g = f
      BY <2>1, Zenon
  <2>2. CASE g # f
    <3>0. conn[g] # NoConn
        BY <1>1, <2>2, Zenon DEF Changed
    <3>1. conn'[g] = conn[g] /\ conn[g].id # conn[f].id
        BY <2>2, <3>0, OthersStay, Zenon
    <3>2. Identified(conn[g])
        BY <3>0, Zenon DEF IdentitiesFit
    <3> QED
        BY <3>1, <3>2 DEF Identified, Belongs
  <2> QED
      BY <2>1, <2>2, Zenon
<1> QED
    BY <1>1, Zenon DEF IdentitiesFit

\* The results among `new` are of f's orders, others than those it has results
\* of and those that wait.
Answers(f, new) ==
    /\ conn'[f].sent >= conn[f].sent
    /\ \A x \in new : x.kind = "result" =>
          /\ x.id = conn[f].id /\ x.n <= conn'[f].sent
          /\ \A y \in Notes(Sent(f)) : y.kind = "result" => y.n # x.n
    /\ \A o \in orders' : o.id = conn[f].id =>
          /\ o.n <= conn'[f].sent
          /\ \A x \in Notes(Sent(f)) \union new : x.kind = "result" => x.n # o.n

OrdersDiffer(os) == \A o, p \in os : o.id = p.id /\ o.n = p.n => o = p

\* What a client is told is a result or an update, with its number.
LEMMA NotesAreItems ==
    ASSUME NEW s \in Seq(OutItem), NEW x \in Notes(s)
    PROVE  x \in OutItem /\ x.kind \in {"result", "update"} /\ x.n \in Nat
BY DEF Notes, Noteworthy, OutItem

\* A step at one descriptor keeps the results there those of different orders of
\* its connection.
LEMMA ResultsKept ==
    ASSUME WsTypeOK, WsTypeOK', IdsAreUnique, ResultsFit, NEW f \in Fd, NEW new, Changed(f, new),
           Belongs(f), Answers(f, new), OrdersDiffer(orders)'
    PROVE  ResultsFit'
<1>1. ASSUME NEW g \in Fd, conn'[g] # NoConn PROVE OrdersWait(conn[g], Sent(g))'
  <2>1. CASE g = f
    <3>0. conn[f] # NoConn /\ conn[f] \in Conn /\ conn'[f] \in Conn /\ conn'[f].id = conn[f].id
        BY ConnIsNotNone, Zenon DEF Changed
    <3>1. OrdersWait(conn[f], Sent(f))
        BY <3>0, Zenon DEF ResultsFit
    <3>2. Notes(Sent(f))' = Notes(Sent(f)) \union new
        BY Zenon DEF Changed
    <3>3. Sent(f) \in Seq(OutItem)
        BY <3>0 DEF Sent, WsTypeOK, Conn
    <3>4. conn[f].sent \in Nat /\ conn'[f].sent \in Nat /\ conn'[f].sent >= conn[f].sent
        BY <3>0, Zenon DEF Conn, Answers
    <3>5. Orderly(Sent(f), "result")'
        BY <3>1, Zenon DEF OrdersWait, Answers, Changed, Noteworthies, Follows
    <3>6. \A x \in Notes(Sent(f))' : x.kind = "result" => x.id = conn'[f].id /\ x.n <= conn'[f].sent
      <4>1. ASSUME NEW x \in Notes(Sent(f)), x.kind = "result" PROVE x.id = conn[f].id /\ x.n <= conn'[f].sent
        <5>1. x.n \in Nat
            BY <3>3, NotesAreItems, Zenon
        <5>2. x.id = conn[f].id /\ x.n <= conn[f].sent
            BY <3>1, <4>1, Zenon DEF OrdersWait
        <5> QED
            BY <3>4, <5>1, <5>2
      <4>2. ASSUME NEW x \in new, x.kind = "result" PROVE x.id = conn[f].id /\ x.n <= conn'[f].sent
          BY <4>2, Zenon DEF Answers
      <4> QED
          BY <3>0, <3>2, <4>1, <4>2, Zenon
    <3>7. \A o \in orders' : o.id = conn'[f].id =>
            /\ o.n <= conn'[f].sent
            /\ \A x \in Notes(Sent(f))' : x.kind = "result" => x.n # o.n
        BY <3>0, <3>2, Zenon DEF Answers
    <3> QED
        BY <2>1, <3>5, <3>6, <3>7, Zenon DEF OrdersWait
  <2>2. CASE g # f
    <3>0. conn[g] # NoConn
        BY <1>1, <2>2, Zenon DEF Changed
    <3>1. conn'[g] = conn[g] /\ Sent(g)' = Sent(g) /\ conn[g].id # conn[f].id
        BY <2>2, <3>0, OthersStay, Zenon
    <3>2. OrdersWait(conn[g], Sent(g))
        BY <3>0, Zenon DEF ResultsFit
    <3>3. \A o \in orders' : o.id = conn[g].id => o \in orders
        BY <3>1, Zenon DEF Belongs
    <3> QED
        BY <3>1, <3>2, <3>3, Zenon DEF OrdersWait
  <2> QED
      BY <2>1, <2>2, Zenon
<1> QED
    BY <1>1, Zenon DEF ResultsFit, OrdersDiffer

\* The updates among `new` are behind those the client has.
Tells(f, new) ==
    \A x \in new : x.kind = "update" =>
        /\ x.n <= updates'
        /\ \A y \in Notes(Sent(f)) : y.kind = "update" => y.n < x.n

\* A step at one descriptor keeps the updates there in the order of the book.
LEMMA UpdatesKept ==
    ASSUME WsTypeOK, WsTypeOK', IdsAreUnique, UpdatesInOrder, NEW f \in Fd, NEW new, Changed(f, new),
           Tells(f, new), updates' >= updates
    PROVE  UpdatesInOrder'
<1>0. updates \in Nat /\ updates' \in Nat /\ updates' >= updates
    BY Zenon DEF WsTypeOK
<1>1. ASSUME NEW g \in Fd, conn[g] # NoConn, conn[g] \in Conn, NEW x \in Notes(Sent(g)), x.kind = "update"
      PROVE  x.n <= updates'
  <2>1. Sent(g) \in Seq(OutItem)
      BY <1>1 DEF Sent, WsTypeOK, Conn
  <2>2. x.n \in Nat
      BY <2>1, NotesAreItems, Zenon
  <2>3. x.n <= updates
      BY <1>1, Zenon DEF UpdatesInOrder
  <2> QED
      BY <1>0, <2>2, <2>3
<1>2. ASSUME NEW g \in Fd, conn'[g] # NoConn
      PROVE  /\ \A x \in Notes(Sent(g))' : x.kind = "update" => x.n <= updates'
             /\ Orderly(Sent(g), "update")'
  <2>1. CASE g = f
    <3>0. conn[f] # NoConn /\ conn[f] \in Conn
        BY ConnIsNotNone, Zenon DEF Changed
    <3>1. Orderly(Sent(f), "update")
        BY <3>0, Zenon DEF UpdatesInOrder
    <3>2. Orderly(Sent(f), "update")'
        BY <3>1, Zenon DEF Tells, Changed, Noteworthies, Follows
    <3>3. Notes(Sent(f))' = Notes(Sent(f)) \union new
        BY Zenon DEF Changed
    <3>4. \A x \in new : x.kind = "update" => x.n <= updates'
        BY Zenon DEF Tells
    <3>5. \A x \in Notes(Sent(f)) : x.kind = "update" => x.n <= updates'
        BY <1>1, <3>0, Zenon
    <3> QED
        BY <2>1, <3>2, <3>3, <3>4, <3>5, Zenon
  <2>2. CASE g # f
    <3>0. conn[g] # NoConn
        BY <1>2, <2>2, Zenon DEF Changed
    <3>1. Sent(g)' = Sent(g) /\ conn[g] \in Conn
        BY <2>2, <3>0, OthersStay, Zenon
    <3>2. Orderly(Sent(g), "update")
        BY <3>0, Zenon DEF UpdatesInOrder
    <3>3. \A x \in Notes(Sent(g)) : x.kind = "update" => x.n <= updates'
        BY <1>1, <3>0, <3>1, Zenon
    <3> QED
        BY <3>1, <3>2, <3>3, Zenon
  <2> QED
      BY <2>1, <2>2, Zenon
<1> QED
    BY <1>2, Zenon DEF UpdatesInOrder

\* No broadcast is under way; one begins, to all subscribers, or none does.
Turns ==
    /\ ctl # Undefined /\ ctl.at # "broadcast"
    /\ \/ ctl'.at # "broadcast" /\ updates' = updates
       \/ ctl'.at = "broadcast" /\ ctl'.todo = md_subscribers' /\ updates' = updates + 1

\* If f is a subscriber afterwards, it is open, and has subscribed now or before.
Subscribes(f) ==
    <<conn[f].id, f>> \in md_subscribers' =>
        /\ conn'[f].open /\ ~conn'[f].closed
        /\ \/ conn'[f].since = updates
           \/ <<conn[f].id, f>> \in md_subscribers /\ conn'[f].since = conn[f].since

\* The client of g has every update after the first `since`, up to the n-th.
HasAll(items, since, n) ==
    \A m \in (since + 1)..n : \E x \in Notes(items) : x.kind = "update" /\ x.n = m

\* After a turn of the loop, a broadcast that begins is owed to every subscriber.
LEMMA TurnsOwe ==
    ASSUME WsTypeOK, WsTypeOK', Turns
    PROVE  /\ \A s \in md_subscribers : SeesAll(s) <=> HasAll(Sent(s[2]), conn[s[2]].since, updates)
           /\ \A s \in md_subscribers' :
                 HasAll(Sent(s[2])', conn'[s[2]].since, updates) => SeesAll(s)'
           /\ ctl'.at = "broadcast" => updates' > 0 /\ updates < updates'
           /\ Todo' \in SUBSET md_subscribers'
<1>1. updates \in Nat /\ updates' \in Nat
    BY Zenon DEF WsTypeOK
<1>2. Todo = {}
    BY Zenon DEF Todo, Turns
<1>3. \A s \in md_subscribers : SeesAll(s) <=> HasAll(Sent(s[2]), conn[s[2]].since, updates)
    BY <1>2, Zenon DEF SeesAll, HasAll
<1>4. CASE ctl'.at # "broadcast" /\ updates' = updates
  <2>1. Todo' = {}
      BY <1>4, Zenon DEF Todo
  <2>2. \A s \in md_subscribers' : HasAll(Sent(s[2])', conn'[s[2]].since, updates) => SeesAll(s)'
      BY <1>4, <2>1, Zenon DEF SeesAll, HasAll
  <2> QED
      BY <1>3, <1>4, <2>1, <2>2, Zenon
<1>5. CASE ctl'.at = "broadcast" /\ ctl'.todo = md_subscribers' /\ updates' = updates + 1
  <2>1. Todo' = md_subscribers' /\ updates' - 1 = updates /\ updates' > 0 /\ updates < updates'
      BY <1>1, <1>5 DEF Todo
  <2>2. \A s \in md_subscribers' : HasAll(Sent(s[2])', conn'[s[2]].since, updates) => SeesAll(s)'
      BY <2>1, Zenon DEF SeesAll, HasAll
  <2> QED
      BY <1>3, <2>1, <2>2, Zenon
<1> QED
    BY <1>4, <1>5, Zenon DEF Turns

\* A step at one descriptor that publishes nothing leaves no subscriber behind.
LEMMA SubscribersKept ==
    ASSUME WsTypeOK, WsTypeOK', IdsAreUnique, UpdatesInOrder, SubscribersInv, NEW f \in Fd, NEW new,
           Changed(f, new), Belongs(f), Turns, Subscribes(f), \A x \in new : x.kind # "update"
    PROVE  SubscribersInv'
<1>0. /\ conn[f] # NoConn /\ conn'[f] # NoConn /\ conn[f] \in Conn /\ conn'[f] \in Conn
      /\ conn'[f].id = conn[f].id
    BY ConnIsNotNone, Zenon DEF Changed
<1>1. updates \in Nat /\ updates' \in Nat /\ md_subscribers' \in SUBSET (Nat \X Fd)
    BY Zenon DEF WsTypeOK
<1>2. ASSUME NEW s \in md_subscribers', s[2] # f
      PROVE  /\ s \in md_subscribers /\ s[2] \in Fd \ {f} /\ conn[s[2]] # NoConn
             /\ conn'[s[2]] = conn[s[2]] /\ Sent(s[2])' = Sent(s[2])
  <2>1. s \in md_subscribers /\ s[2] \in Fd \ {f}
      BY <1>1, <1>2, SMTT(30) DEF Belongs
  <2>2. conn[s[2]] # NoConn
      BY <2>1, Zenon DEF SubscribersInv, Open
  <2> QED
      BY <2>1, <2>2, OthersStay, Zenon
<1>3. ASSUME NEW s \in md_subscribers', s[2] = f PROVE s = <<conn[f].id, f>>
  <2>1. s = <<s[1], s[2]>>
      BY <1>1, SMTT(30)
  <2>2. s \in md_subscribers => s[1] = conn[f].id
      BY <1>3, Zenon DEF SubscribersInv
  <2> QED
      BY <1>3, <2>1, <2>2, Zenon DEF Belongs
<1>4. ASSUME NEW s \in md_subscribers' PROVE (Open(s[2]) /\ conn[s[2]].open /\ conn[s[2]].id = s[1])'
  <2>1. CASE s[2] = f
      BY <1>0, <1>3, <2>1 DEF Subscribes, Open
  <2>2. CASE s[2] # f
      BY <1>2, <2>2, Zenon DEF SubscribersInv, Open
  <2> QED
      BY <2>1, <2>2, Zenon
<1>5. ASSUME NEW s \in md_subscribers' PROVE HasAll(Sent(s[2])', conn'[s[2]].since, updates)
  <2>1. CASE s[2] = f
    <3>1. s = <<conn[f].id, f>> /\ Notes(Sent(f)) \in SUBSET (Notes(Sent(f))')
        BY <1>3, <2>1, Zenon DEF Changed
    <3>2. CASE conn'[f].since = updates
        BY <1>1, <2>1, <3>2 DEF HasAll
    <3>3. CASE s \in md_subscribers /\ conn'[f].since = conn[f].since
      <4>1. HasAll(Sent(f), conn[f].since, updates)
          BY <2>1, <3>3, TurnsOwe, Zenon DEF SubscribersInv, Turns
      <4> QED
          BY <2>1, <3>1, <3>3, <4>1, Zenon DEF HasAll
    <3> QED
        BY <3>1, <3>2, <3>3, Zenon DEF Subscribes
  <2>2. CASE s[2] # f
    <3>1. HasAll(Sent(s[2]), conn[s[2]].since, updates)
        BY <1>2, <2>2, TurnsOwe, Zenon DEF SubscribersInv, Turns
    <3> QED
        BY <1>2, <2>2, <3>1, Zenon
  <2> QED
      BY <2>1, <2>2, Zenon
<1>6. \A s \in md_subscribers' : SeesAll(s)'
    BY <1>5, TurnsOwe, Zenon
<1>7. ASSUME NEW s \in Todo', NEW x \in Notes(Sent(s[2]))', x.kind = "update" PROVE x.n < updates'
  <2>1. s \in md_subscribers' /\ updates < updates'
      BY TurnsOwe, Zenon DEF Todo
  <2>2. x \in Notes(Sent(s[2])) /\ s[2] \in Fd /\ conn[s[2]] # NoConn
    <3>1. CASE s[2] = f
        BY <1>0, <1>7, <3>1, Zenon DEF Changed
    <3>2. CASE s[2] # f
        BY <1>2, <2>1, <3>2, Zenon
    <3> QED
        BY <3>1, <3>2, Zenon
  <2>3. x.n <= updates
      BY <1>7, <2>2, Zenon DEF UpdatesInOrder
  <2>4. x.n \in Nat
    <3>1. Sent(s[2]) \in Seq(OutItem)
        BY <2>2, SMTT(30) DEF Sent, WsTypeOK, Conn
    <3> QED
        BY <2>2, <3>1, NotesAreItems, Zenon
  <2> QED
      BY <1>1, <2>1, <2>3, <2>4, SMTT(30)
<1>8. \A g \in Fd : conn'[g] = NoConn => received'[g] = <<>>
    BY <1>0, Zenon DEF Changed, SubscribersInv
<1> QED
    BY <1>4, <1>6, <1>7, <1>8, TurnsOwe, Zenon DEF SubscribersInv

-----------------------------------------------------------------------------
(* A connection is served: what the handlers of one connection do.         *)

\* The client of f is told `new`: results, and replies that are not kept track of.
Informed(f, new) == Changed(f, new) /\ Answers(f, new) /\ \A x \in new : x.kind # "update"

Served(f) ==
    /\ \E new : Informed(f, new)
    /\ Belongs(f) /\ Identified(conn[f])' /\ OrdersDiffer(orders)' /\ Subscribes(f)
    /\ orders' \in SUBSET Submitted /\ conn_owner' \in SUBSET (Nat \X Owners)
    /\ conn_perframe' \in SUBSET Nat

\* Serving one connection keeps the invariant.
LEMMA ServedKeeps ==
    ASSUME WsInv, NEW f \in Fd, Served(f), Turns, next_conn_id' = next_conn_id,
           rx' \in [Fd -> Seq(Item)], ctl' \in Running, HandlerIsOpen',
           resolving' \in SUBSET [id : Nat, shake : Handshake], \A r \in resolving' : Asks(r.shake)
    PROVE  WsInv'
<1>1. PICK new : Changed(f, new) /\ Answers(f, new) /\ \A x \in new : x.kind # "update"
    BY Zenon DEF Served, Informed
<1>2. WsTypeOK /\ updates \in Nat
    BY Zenon DEF WsInv, WsTypeOK
<1>3. updates' \in Nat /\ updates' >= updates
    BY <1>2 DEF Turns
<1>4. md_subscribers' \in SUBSET (Nat \X Fd)
  <2>1. conn[f].id \in Nat
      BY <1>1, Zenon DEF Changed, Conn
  <2> QED
      BY <1>2, <2>1, SMTT(30) DEF Served, Belongs, WsTypeOK
<1>5. WsTypeOK'
    BY <1>1, <1>2, <1>3, <1>4, Zenon DEF WsTypeOK, Served, Changed
<1>6. IdsAreUnique' /\ IdsAreOld'
    BY <1>1, IdsKept, Zenon DEF WsInv, Served
<1>7. IdentitiesFit'
    BY <1>1, IdentitiesKept, Zenon DEF WsInv, Served
<1>8. ResultsFit'
    BY <1>1, <1>5, ResultsKept, Zenon DEF WsInv, Served
<1>9. UpdatesInOrder'
  <2>1. Tells(f, new)
      BY <1>1, Zenon DEF Tells
  <2> QED
      BY <1>1, <1>3, <1>5, <2>1, UpdatesKept, Zenon DEF WsInv
<1>10. SubscribersInv'
    BY <1>1, <1>5, SubscribersKept, Zenon DEF WsInv, Served
<1> QED
    BY <1>5, <1>6, <1>7, <1>8, <1>9, <1>10, Zenon DEF WsInv

\* A subscriber that closes is taken out.
LEMMA StaysSubscribed ==
    ASSUME WsInv, NEW f \in Fd, conn[f] \in Conn, NEW new, Changed(f, new), NEW owners, NEW perframe,
           Forgets(f, owners, perframe, md_subscribers),
           conn'[f].open = conn[f].open, conn'[f].since = conn[f].since
    PROVE  Subscribes(f)
<1> SUFFICES ASSUME <<conn[f].id, f>> \in md_subscribers'
             PROVE  /\ conn'[f].open /\ ~conn'[f].closed /\ <<conn[f].id, f>> \in md_subscribers
    BY Zenon DEF Subscribes
<1>1. PICK s : s = <<conn[f].id, f>>
    BY Zenon
<1>2. s \in md_subscribers /\ s[2] = f /\ s[1] = conn[f].id /\ s \in md_subscribers'
    BY <1>1, Zenon DEF Forgets
<1>3. conn[f].open /\ ~conn[f].closed
    BY <1>2, Zenon DEF WsInv, SubscribersInv, Open
<1>4. ~conn'[f].closed
  <2>1. conn'[f].id = s[1]
      BY <1>2, Zenon DEF Changed
  <2> QED
      BY <1>2, <1>3, <2>1, Zenon DEF Forgets
<1> QED
    BY <1>1, <1>2, <1>3, <1>4, Zenon

\* A step that submits nothing, and tells the client nothing but replies.
LEMMA QuietIsServed ==
    ASSUME WsInv, NEW f \in Fd, conn[f] \in Conn, Changed(f, {}),
           Forgets(f, conn_owner, conn_perframe, md_subscribers), Alike(conn'[f], conn[f]),
           UNCHANGED <<orders, resolving>>
    PROVE  Served(f)
<1>1. conn[f] # NoConn /\ conn'[f].id = conn[f].id /\ conn[f].sent \in Nat
    BY ConnIsNotNone, ZenonT(60) DEF Changed, Conn
<1>2. Belongs(f)
    BY Zenon DEF Belongs, Forgets
<1>3. Identified(conn[f])'
  <2>1. Identified(conn[f])
      BY <1>1, Zenon DEF WsInv, IdentitiesFit
  <2> QED
      BY <1>1, <2>1, Zenon DEF Identified, Forgets, Alike
<1>4. Answers(f, {})
  <2>1. OrdersWait(conn[f], Sent(f))
      BY <1>1, Zenon DEF WsInv, ResultsFit
  <2>2. conn'[f].sent = conn[f].sent /\ conn'[f].sent >= conn[f].sent
      BY <1>1, SMTT(30) DEF Alike
  <2> QED
      BY <1>1, <2>1, <2>2, Zenon DEF Answers, OrdersWait
<1>5. OrdersDiffer(orders)'
    BY Zenon DEF WsInv, ResultsFit, OrdersDiffer
<1>6. Subscribes(f)
    BY StaysSubscribed, Zenon DEF Alike
<1>7. /\ orders' \in SUBSET Submitted /\ conn_owner' \in SUBSET (Nat \X Owners)
      /\ conn_perframe' \in SUBSET Nat
    BY Zenon DEF WsInv, WsTypeOK, Forgets
<1>8. Informed(f, {})
    BY <1>4, Zenon DEF Informed
<1> QED
    BY <1>2, <1>3, <1>5, <1>6, <1>7, <1>8, Zenon DEF Served

\* Connection f, with what a handler has read or assembled so far.
Taken(f, c) ==
    /\ c \in Conn /\ c.id = conn[f].id /\ c.out = conn[f].out /\ Alike(c, conn[f])
    /\ c.closed = conn[f].closed

\* The connection is put back, with at most one item more to send that is no
\* result.
LEMMA PutIsServed ==
    ASSUME WsInv, NEW f \in Fd, conn[f] \in Conn, NEW c, Taken(f, c), NEW p \in Conn, p.id = c.id,
           Alike(p, c), p.out = c.out \/ \E x \in OutItem : p.out = Append(c.out, x) /\ ~Noteworthy(x),
           Put(f, p, conn_owner, conn_perframe, md_subscribers), UNCHANGED <<received, orders, resolving>>
    PROVE  Served(f)
<1>1. PICK w \in Seq(OutItem) :
          p.out = conn[f].out \o w /\ Notes(w) = {} /\ \A k \in Noteworthies : Orderly(w, k)
  <2>0. conn[f].out \in Seq(OutItem) /\ c.out = conn[f].out
      BY Zenon DEF Conn, Taken
  <2>1. CASE p.out = c.out
    <3>1. PICK w : w = <<>>
        BY Zenon
    <3>2. w \in Seq(OutItem) /\ DOMAIN w = {} /\ conn[f].out \o w = conn[f].out
        BY <2>0, <3>1
    <3>3. Notes(w) = {} /\ \A k \in Noteworthies : Orderly(w, k)
        BY <3>2, Zenon DEF Notes, Orderly
    <3> QED
        BY <2>0, <2>1, <3>2, <3>3, Zenon
  <2>2. CASE \E x \in OutItem : p.out = Append(c.out, x) /\ ~Noteworthy(x)
    <3>1. PICK x \in OutItem : p.out = Append(c.out, x) /\ ~Noteworthy(x)
        BY <2>2, Zenon
    <3>2. PICK w : w = <<x>>
        BY Zenon
    <3>3. w \in Seq(OutItem) /\ Notes(w) = {} /\ \A k \in Noteworthies : Orderly(w, k)
        BY <3>1, <3>2, NotesOfOne, Zenon
    <3>4. Append(conn[f].out, x) = conn[f].out \o w
        BY <2>0, <3>2, <3>3
    <3> QED
        BY <2>0, <3>1, <3>3, <3>4, Zenon
  <2> QED
      BY <2>1, <2>2, Zenon
<1>2. p.id = conn[f].id /\ WsTypeOK
    BY Zenon DEF Taken, WsInv
<1>3. Changed(f, {}) /\ Forgets(f, conn_owner, conn_perframe, md_subscribers) /\ conn'[f] = p
    BY <1>1, <1>2, PutIs, ZenonT(60)
<1>4. Alike(conn'[f], conn[f])
    BY <1>3, Zenon DEF Alike, Taken
<1> QED
    BY <1>3, <1>4, QuietIsServed, Zenon

\* A reply to the client.
LEMMA ReplyIsServed ==
    ASSUME WsInv, NEW f \in Fd, conn[f] \in Conn, NEW c, Taken(f, c), NEW subs \in SUBSET md_subscribers,
           SendText(f, c, [kind |-> "reply"], conn_owner, conn_perframe, subs),
           UNCHANGED <<orders, resolving>>
    PROVE  Served(f)
<1>1. PICK x : x = [kind |-> "reply"]
    BY Zenon
<1>2. x \in OutItem /\ ~Noteworthy(x)
    BY <1>1, Zenon DEF OutItem, Noteworthy
<1>3. WsTypeOK /\ c \in Conn /\ c.id = conn[f].id /\ c.out = conn[f].out
    BY Zenon DEF WsInv, Taken
<1>4. SendText(f, c, x, conn_owner, conn_perframe, subs)
    BY <1>1, Zenon
<1>5. Changed(f, {}) /\ Forgets(f, conn_owner, conn_perframe, subs) /\ Alike(conn'[f], c)
    BY <1>2, <1>3, <1>4, SendTextIs, ZenonT(60)
<1>6. Forgets(f, conn_owner, conn_perframe, md_subscribers) /\ Alike(conn'[f], conn[f])
    BY <1>5, ZenonT(60) DEF Forgets, Alike, Taken
<1> QED
    BY <1>5, <1>6, QuietIsServed, Zenon

\* A subscription counts from the updates there were, unless it is a second one.
LEMMA SubscribeIsServed ==
    ASSUME WsInv, NEW f \in Fd, conn[f] \in Conn, NEW c, Taken(f, c), conn[f].open, ~conn[f].closed,
           Subscribe(f, c), UNCHANGED <<orders, resolving>>
    PROVE  Served(f)
<1>1. PICK x, e : x = [kind |-> "reply"] /\ e = <<c.id, f>>
    BY Zenon
<1>2. PICK d : d = [c EXCEPT !.since = IF e \in md_subscribers THEN @ ELSE updates]
    BY Zenon
<1>3. WsTypeOK /\ c \in Conn /\ c.id = conn[f].id /\ c.out = conn[f].out /\ updates \in Nat
    BY Zenon DEF WsInv, Taken, WsTypeOK
<1>4. /\ d \in Conn /\ d.id = conn[f].id /\ d.out = conn[f].out
      /\ d.since = (IF e \in md_subscribers THEN c.since ELSE updates)
      /\ d.shake = c.shake /\ d.open = c.open /\ d.sent = c.sent /\ d.closed = c.closed
    BY <1>2, <1>3, ZenonT(60) DEF Conn
<1>5. x \in OutItem /\ ~Noteworthy(x)
    BY <1>1, Zenon DEF OutItem, Noteworthy
<1>6. SendText(f, d, x, conn_owner, conn_perframe, md_subscribers \union {e})
    BY <1>1, <1>2, Zenon DEF Subscribe
<1>7. /\ Changed(f, {}) /\ Forgets(f, conn_owner, conn_perframe, md_subscribers \union {e})
      /\ Alike(conn'[f], d)
    BY <1>3, <1>4, <1>5, <1>6, SendTextIs, Zenon
<1>8. conn[f] # NoConn /\ conn'[f].id = conn[f].id /\ conn[f].sent \in Nat
    BY <1>7, ConnIsNotNone, ZenonT(60) DEF Changed, Conn
<1>9. Belongs(f)
    BY <1>1, <1>3, <1>7, Zenon DEF Belongs, Forgets
<1>10. Identified(conn[f])'
  <2>1. Identified(conn[f])
      BY <1>8, Zenon DEF WsInv, IdentitiesFit
  <2>2. conn'[f].shake = conn[f].shake /\ conn'[f].open = conn[f].open
      BY <1>4, <1>7, Zenon DEF Alike, Taken
  <2> QED
      BY <1>7, <1>8, <2>1, <2>2, Zenon DEF Identified, Forgets
<1>11. Answers(f, {})
  <2>1. OrdersWait(conn[f], Sent(f))
      BY <1>8, Zenon DEF WsInv, ResultsFit
  <2>2. conn'[f].sent = conn[f].sent
      BY <1>4, <1>7, Zenon DEF Alike, Taken
  <2> QED
      BY <1>8, <2>1, <2>2 DEF Answers, OrdersWait
<1>12. OrdersDiffer(orders)'
    BY Zenon DEF WsInv, ResultsFit, OrdersDiffer
<1>13. Subscribes(f)
  <2> SUFFICES ASSUME e \in md_subscribers'
               PROVE  /\ conn'[f].open /\ ~conn'[f].closed
                      /\ \/ conn'[f].since = updates
                         \/ e \in md_subscribers /\ conn'[f].since = conn[f].since
      BY <1>1, <1>3, Zenon DEF Subscribes
  <2>1. conn'[f].open /\ conn'[f].since = d.since
      BY <1>4, <1>7, Zenon DEF Alike, Taken
  <2>2. c.since = conn[f].since
      BY Zenon DEF Taken, Alike
  <2>3. ~conn'[f].closed
    <3>1. e[1] = conn'[f].id
        BY <1>1, <1>3, <1>8, Zenon
    <3> QED
        BY <1>7, <3>1, Zenon DEF Forgets
  <2> QED
      BY <1>4, <2>1, <2>2, <2>3, Zenon
<1>14. /\ orders' \in SUBSET Submitted /\ conn_owner' \in SUBSET (Nat \X Owners)
       /\ conn_perframe' \in SUBSET Nat
    BY <1>7, Zenon DEF WsInv, WsTypeOK, Forgets
<1>15. Informed(f, {})
    BY <1>7, <1>11, Zenon DEF Informed
<1> QED
    BY <1>9, <1>10, <1>12, <1>13, <1>14, <1>15, Zenon DEF Served

\* An order is submitted, or its result is there at once.
LEMMA SubmitIsServed ==
    ASSUME WsInv, NEW f \in Fd, conn[f] \in Conn, NEW c, Taken(f, c), NEW owner \in Owners,
           SubmitOrder(f, c, owner), UNCHANGED resolving
    PROVE  Served(f)
<1>1. PICK o, d : /\ o = [fd |-> f, id |-> c.id, n |-> c.sent + 1, owner |-> owner]
                  /\ d = [c EXCEPT !.sent = @ + 1]
    BY Zenon
<1>2. WsTypeOK /\ c \in Conn /\ c.id = conn[f].id /\ c.out = conn[f].out /\ c.sent = conn[f].sent
    BY Zenon DEF WsInv, Taken, Alike
<1>3. conn[f] # NoConn /\ conn[f].id \in Nat /\ conn[f].sent \in Nat
    BY ConnIsNotNone, Zenon DEF Conn
<1>4. /\ d \in Conn /\ d.id = conn[f].id /\ d.out = conn[f].out /\ d.sent = conn[f].sent + 1
      /\ d.shake = c.shake /\ d.open = c.open /\ d.since = c.since /\ d.closed = c.closed
  <2>1. d = [c EXCEPT !.sent = c.sent + 1] /\ c.sent + 1 \in Nat /\ c.sent + 1 = conn[f].sent + 1
      BY <1>1, <1>2, <1>3
  <2> QED
      BY <1>2, <2>1, ZenonT(60) DEF Conn
<1>5. o \in Submitted /\ o.id = conn[f].id /\ o.n = conn[f].sent + 1
    BY <1>1, <1>2, <1>3 DEF Submitted
<1>6. OrdersWait(conn[f], Sent(f)) /\ Identified(conn[f])
    BY <1>3, Zenon DEF WsInv, ResultsFit, IdentitiesFit
<1>7. Sent(f) \in Seq(OutItem) /\ orders \in SUBSET Submitted
    BY <1>2 DEF Sent, WsTypeOK, Conn
<1>8. \A x \in Notes(Sent(f)) : x.kind = "result" => x.n # conn[f].sent + 1
  <2>1. ASSUME NEW x \in Notes(Sent(f)), x.kind = "result" PROVE x.n # conn[f].sent + 1
    <3>1. x.n \in Nat
        BY <1>7, NotesAreItems, Zenon
    <3>2. x.n <= conn[f].sent
        BY <1>6, <2>1, Zenon DEF OrdersWait
    <3> QED
        BY <1>3, <3>1, <3>2
  <2> QED
      BY <2>1, Zenon
<1>9. ASSUME NEW new, Changed(f, new), Forgets(f, conn_owner, conn_perframe, md_subscribers),
             Alike(conn'[f], d)
      PROVE  /\ conn'[f].sent = conn[f].sent + 1 /\ conn'[f].sent >= conn[f].sent
             /\ Identified(conn[f])' /\ Subscribes(f)
             /\ conn_owner' \in SUBSET (Nat \X Owners) /\ conn_perframe' \in SUBSET Nat
             /\ \A e \in conn_owner' : e \in conn_owner
             /\ \A i \in conn_perframe' : i \in conn_perframe
             /\ \A s \in md_subscribers' : s \in md_subscribers
  <2>1. /\ conn'[f].shake = conn[f].shake /\ conn'[f].open = conn[f].open /\ conn'[f].since = conn[f].since
        /\ conn'[f].sent = conn[f].sent + 1 /\ conn'[f].id = conn[f].id
      BY <1>4, <1>9, ZenonT(60) DEF Alike, Taken, Changed
  <2>2. Identified(conn[f])'
      BY <1>6, <1>9, <2>1, ZenonT(60) DEF Identified, Forgets
  <2>3. Subscribes(f)
      BY <1>9, <2>1, StaysSubscribed, Zenon
  <2>4. /\ conn_owner' \in SUBSET (Nat \X Owners) /\ conn_perframe' \in SUBSET Nat
        /\ \A e \in conn_owner' : e \in conn_owner
        /\ \A i \in conn_perframe' : i \in conn_perframe
        /\ \A s \in md_subscribers' : s \in md_subscribers
      BY <1>2, <1>9, Zenon DEF Forgets, WsTypeOK
  <2> QED
      BY <1>3, <2>1, <2>2, <2>3, <2>4, SMTT(30)
<1>10. CASE /\ orders' = orders \union {o}
            /\ Put(f, d, conn_owner, conn_perframe, md_subscribers)
            /\ UNCHANGED received
  <2>1. PICK w : w = <<>>
      BY Zenon
  <2>2. w \in Seq(OutItem) /\ DOMAIN w = {} /\ conn[f].out \in Seq(OutItem) /\ conn[f].out \o w = conn[f].out
      BY <2>1 DEF Conn
  <2>3. Notes(w) = {} /\ \A k \in Noteworthies : Orderly(w, k)
      BY <2>2, Zenon DEF Notes, Orderly
  <2>4. Changed(f, {}) /\ Forgets(f, conn_owner, conn_perframe, md_subscribers) /\ conn'[f] = d
      BY <1>2, <1>4, <1>10, <2>2, <2>3, PutIs, ZenonT(60)
  <2>5. Alike(conn'[f], d)
      BY <2>4, Zenon DEF Alike
  <2>6. orders' \in SUBSET Submitted /\ \A p \in orders' : p = o \/ p \in orders
      BY <1>5, <1>7, <1>10, Zenon
  <2>7. ASSUME NEW p \in orders, p.id = conn[f].id
        PROVE  /\ p.n <= conn'[f].sent /\ p.n # o.n
               /\ \A x \in Notes(Sent(f)) : x.kind = "result" => x.n # p.n
    <3>1. p.n <= conn[f].sent /\ \A x \in Notes(Sent(f)) : x.kind = "result" => x.n # p.n
        BY <1>6, <2>7, Zenon DEF OrdersWait
    <3>2. p.n \in Nat /\ conn'[f].sent = conn[f].sent + 1
        BY <1>7, <1>9, <2>4, <2>5, ZenonT(60) DEF Submitted
    <3>3. p.n <= conn'[f].sent /\ p.n # o.n
        BY <1>3, <1>5, <3>1, <3>2
    <3> QED
        BY <3>1, <3>3, Zenon
  <2>8. Belongs(f)
      BY <1>5, <1>9, <2>4, <2>5, <2>6, Zenon DEF Belongs
  <2>9. OrdersDiffer(orders)'
    <3>1. \A p, q \in orders : p.id = q.id /\ p.n = q.n => p = q
        BY Zenon DEF WsInv, ResultsFit
    <3> QED
        BY <1>5, <2>6, <2>7, <3>1, ZenonT(60) DEF OrdersDiffer
  <2>10. Answers(f, {})
    <3>1. conn'[f].sent = conn[f].sent + 1 /\ conn'[f].sent >= conn[f].sent
        BY <1>9, <2>4, <2>5, Zenon
    <3>2. o.n <= conn'[f].sent /\ \A x \in Notes(Sent(f)) : x.kind = "result" => x.n # o.n
        BY <1>3, <1>5, <1>8, <3>1
    <3> QED
        BY <2>6, <2>7, <3>1, <3>2, Zenon DEF Answers
  <2>11. Informed(f, {})
      BY <2>4, <2>5, <2>10, Zenon DEF Informed
  <2> QED
      BY <1>9, <2>4, <2>5, <2>6, <2>8, <2>9, <2>11, Zenon DEF Served
<1>11. CASE /\ orders = {}
            /\ SendText(f, d, Result(o), conn_owner, conn_perframe, md_subscribers)
            /\ UNCHANGED orders
  <2>1. PICK x : x = Result(o)
      BY Zenon
  <2>2. x \in OutItem /\ Noteworthy(x) /\ x.kind = "result" /\ x.id = conn[f].id /\ x.n = conn[f].sent + 1
      BY <1>3, <1>5, <2>1 DEF Result, OutItem, Noteworthy
  <2>3. SendText(f, d, x, conn_owner, conn_perframe, md_subscribers)
      BY <1>11, <2>1, Zenon
  <2>4. Changed(f, {x}) /\ Forgets(f, conn_owner, conn_perframe, md_subscribers) /\ Alike(conn'[f], d)
      BY <1>2, <1>4, <2>2, <2>3, SendTextIs, Zenon
  <2>5. orders = {} /\ orders' = {}
      BY <1>11, Zenon
  <2>6. Belongs(f)
      BY <1>9, <2>4, <2>5, Zenon DEF Belongs
  <2>7. OrdersDiffer(orders)'
      BY <2>5, Zenon DEF OrdersDiffer
  <2>8. Answers(f, {x})
    <3>1. conn'[f].sent = conn[f].sent + 1 /\ conn'[f].sent >= conn[f].sent
        BY <1>9, <2>4, ZenonT(60)
    <3>2. x.n <= conn'[f].sent
        BY <1>3, <2>2, <3>1
    <3> QED
        BY <1>8, <2>2, <2>5, <3>1, <3>2, ZenonT(60) DEF Answers
  <2>9. orders' \in SUBSET Submitted /\ x.kind # "update"
      BY <1>7, <1>11, <2>2, Zenon
  <2>10. Informed(f, {x})
      BY <2>4, <2>8, <2>9, Zenon DEF Informed
  <2> QED
      BY <1>9, <2>4, <2>6, <2>7, <2>9, <2>10, Zenon DEF Served
<1> QED
    BY <1>1, <1>10, <1>11, Zenon DEF SubmitOrder

-----------------------------------------------------------------------------
(* The steps of a handler.                                                 *)

\* After a handler's step it goes on with an open connection, or ends.
LEMMA HandlerTurns ==
    ASSUME WsInv, NEW f \in Fd, Served(f), ctl # Undefined, ctl.at # "broadcast", NEW more,
           conn'[f].closing \in BOOLEAN => more \in BOOLEAN,
           ctl' = (IF conn'[f].closed THEN Idle ELSE Frames(f, more)), updates' = updates
    PROVE  ctl' \in Running /\ HandlerIsOpen' /\ Turns
<1>1. conn'[f] # NoConn /\ conn'[f].closing \in BOOLEAN
    BY ConnIsNotNone, Zenon DEF Served, Informed, Changed, Conn
<1>2. CASE conn'[f].closed
    BY <1>2, Zenon DEF Running, Idle, HandlerIsOpen, Turns
<1>3. CASE ~conn'[f].closed
  <2>1. ctl' = Frames(f, more) /\ more \in BOOLEAN
      BY <1>1, <1>3, Zenon
  <2>2. ctl' \in Running /\ ctl'.at = "frames" /\ ctl'.fd = f
      BY <2>1 DEF Frames, Running
  <2> QED
      BY <1>1, <1>3, <2>2, Zenon DEF HandlerIsOpen, Turns, Open
<1> QED
    BY <1>2, <1>3, Zenon

\* What the frame of an order names is a user, or none.
LEMMA OrderNames ==
    ASSUME NEW fr \in Item, fr.kind = "order"
    PROVE  fr.user \in User \union {None}
BY DEF Item, Frame, Payload, FirstRequest

\* An order message is answered at once, or submitted as the connection's
\* latest order.
LEMMA OrderMessageIsServed ==
    ASSUME WsInv, NEW f \in Fd, conn[f] \in Conn, NEW c, Taken(f, c), NEW user \in User \union {None},
           OrderMessage(f, c, user), UNCHANGED resolving
    PROVE  Served(f)
<1>1. CASE Reply(f, c) /\ UNCHANGED orders
    BY <1>1, ReplyIsServed, Zenon DEF Reply
<1>2. CASE \E owner \in OwnersOf(c, user) : SubmitOrder(f, c, owner)
  <2>1. PICK owner \in OwnersOf(c, user) : SubmitOrder(f, c, owner)
      BY <1>2, Zenon
  <2>2. conn_owner \in SUBSET (Nat \X Owners)
      BY Zenon DEF WsInv, WsTypeOK
  <2>3. owner \in Owners
    <3>1. CASE c.id \in conn_perframe
        BY <2>1, <3>1, Zenon DEF OwnersOf, Owners
    <3>2. CASE c.id \notin conn_perframe
      <4>1. PICK e \in conn_owner : owner = e[2]
          BY <2>1, <3>2, Zenon DEF OwnersOf
      <4> QED
          BY <2>2, <4>1, Zenon
    <3> QED
        BY <3>1, <3>2, Zenon
  <2> QED
      BY <2>1, <2>3, SubmitIsServed, Zenon
<1> QED
    BY <1>1, <1>2, Zenon DEF OrderMessage

\* process_frames: one frame.
LEMMA HandleFrameKeeps ==
    ASSUME WsInv, HandleFrame
    PROVE  WsInv'
<1>1. PICK f, fr, c : /\ f = ctl.fd /\ fr = Head(conn[f].in)
                      /\ c = [conn[f] EXCEPT !.in = SubSeq(@, Len(Bytes(fr)) + 1, Len(@))]
    BY Zenon
<1>2. ctl.at = "frames" /\ ctl # Undefined /\ ctl.at # "broadcast" /\ ctl \in Running
    BY DEF HandleFrame, Undefined, WsInv, WsTypeOK
<1>3. f \in Fd /\ conn[f] # NoConn /\ ~conn[f].closed
  <2>1. f \in Fd
      BY <1>1, <1>2 DEF Running, Idle, Undefined
  <2> QED
      BY <1>1, <1>2, <2>1, Zenon DEF WsInv, HandlerIsOpen, Open
<1>4. conn[f] \in Conn /\ conn[f].in \in Seq(Item) /\ conn[f].parts \in Nat
    BY <1>3, Zenon DEF WsInv, WsTypeOK, Conn
<1>5. conn[f].open /\ conn[f].in # <<>> /\ DecodeWsFrame(conn[f].in) # "incomplete"
    BY <1>1, Zenon DEF HandleFrame, Decodes, DecodeWsFrame
<1>6. fr \in Item
    BY <1>1, <1>4, <1>5
<1>7. Taken(f, c)
  <2>1. Len(Bytes(fr)) \in {1, 2}
      BY Zenon DEF Bytes
  <2>2. SubSeq(conn[f].in, Len(Bytes(fr)) + 1, Len(conn[f].in)) \in Seq(Item)
      BY <1>4, <2>1
  <2> QED
      BY <1>1, <1>4, <2>2, ZenonT(60) DEF Taken, Conn, Alike
<1>8. c.parts \in Nat /\ c.out \in Seq(OutItem) /\ c \in Conn
    BY <1>7, Zenon DEF Taken, Conn
<1>9. UNCHANGED <<next_conn_id, rx, resolving, updates>>
    BY Zenon DEF HandleFrame
<1>10. /\ \/ DecodeWsFrame(conn[f].in) = "error" /\ Violation(f, conn[f]) /\ UNCHANGED orders
          \/ Control(f, c, fr) \/ Text(f, c, fr) \/ Continuation(f, c, fr)
       /\ ctl' = IF conn'[f].closed THEN Idle ELSE Frames(f, ~conn'[f].closing)
    BY <1>1, Zenon DEF HandleFrame
<1>11. ASSUME NEW d, Taken(f, d), Violation(f, d), UNCHANGED orders PROVE Served(f)
  <2>1. Failed(d) \in Conn /\ Failed(d).id = d.id /\ Failed(d).out = d.out /\ Alike(Failed(d), d)
      BY <1>11, Zenon DEF Taken, Failed, Conn, Alike
  <2> QED
      BY <1>3, <1>4, <1>9, <1>11, <2>1, PutIsServed, Zenon DEF Violation
<1>12. ASSUME NEW n \in Nat, Assemble(f, c, n), UNCHANGED orders PROVE Served(f)
  <2>1. PICK p : p = [c EXCEPT !.parts = n]
      BY Zenon
  <2>2. p \in Conn /\ p.id = c.id /\ p.out = c.out /\ Alike(p, c)
      BY <1>8, <2>1, Zenon DEF Conn, Alike
  <2> QED
      BY <1>3, <1>4, <1>7, <1>9, <1>12, <2>1, <2>2, PutIsServed, Zenon DEF Assemble
<1>13. ASSUME Violation(f, conn[f]), UNCHANGED orders PROVE Served(f)
  <2>1. Taken(f, conn[f])
      BY <1>4, Zenon DEF Taken, Alike
  <2> QED
      BY <1>11, <1>13, <2>1, Zenon
<1>14. ASSUME NEW kind \in {"pong", "close"}, Queue(f, c, kind), UNCHANGED orders PROVE Served(f)
  <2>1. PICK p, x : /\ p = [c EXCEPT !.out = Append(@, [kind |-> kind]), !.closing = @ \/ kind = "close"]
                    /\ x = [kind |-> kind]
      BY Zenon
  <2>2. x \in OutItem /\ ~Noteworthy(x)
      BY <2>1, Zenon DEF OutItem, Noteworthy
  <2>3. Append(c.out, x) \in Seq(OutItem) /\ (c.closing \/ kind = "close") \in BOOLEAN
      BY <1>8, <2>2
  <2>4. p \in Conn /\ p.id = c.id /\ p.out = Append(c.out, x) /\ Alike(p, c)
      BY <1>8, <2>1, <2>3, ZenonT(60) DEF Conn, Alike
  <2> QED
      BY <1>3, <1>4, <1>7, <1>9, <1>14, <2>1, <2>2, <2>4, PutIsServed, Zenon DEF Queue
<1>15. ASSUME Control(f, c, fr) PROVE Served(f)
    BY <1>14, <1>15, Zenon DEF Control
<1>16. ASSUME Text(f, c, fr) PROVE Served(f)
  <2>1. CASE Violation(f, c) /\ UNCHANGED orders
      BY <1>7, <1>11, <2>1, Zenon
  <2>2. CASE fr.kind = "order" /\ OrderMessage(f, c, fr.user)
      BY <1>3, <1>4, <1>6, <1>7, <1>9, <2>2, OrderNames, OrderMessageIsServed, Zenon
  <2>3. CASE Subscribe(f, c) /\ UNCHANGED orders
      BY <1>3, <1>4, <1>5, <1>7, <1>9, <2>3, SubscribeIsServed, Zenon
  <2>4. CASE Unsubscribe(f, c) /\ UNCHANGED orders
      BY <1>3, <1>4, <1>7, <1>9, <2>4, ReplyIsServed, Zenon DEF Unsubscribe
  <2>5. CASE Assemble(f, c, 1) /\ UNCHANGED orders
      BY <1>12, <2>5, Zenon
  <2> QED
      BY <1>16, <2>1, <2>2, <2>3, <2>4, <2>5, Zenon DEF Text
<1>17. ASSUME Continuation(f, c, fr) PROVE Served(f)
  <2>1. CASE Violation(f, c) /\ UNCHANGED orders
      BY <1>7, <1>11, <2>1, Zenon
  <2>2. CASE Assemble(f, c, c.parts + 1) /\ UNCHANGED orders
      BY <1>8, <1>12, <2>2
  <2>3. CASE OrderMessage(f, [c EXCEPT !.parts = 0], None)
    <3>1. PICK d : d = [c EXCEPT !.parts = 0]
        BY ZenonT(60)
    <3>2. Taken(f, d)
        BY <1>7, <3>1, Zenon DEF Taken, Conn, Alike
    <3> QED
        BY <1>3, <1>4, <1>9, <2>3, <3>1, <3>2, OrderMessageIsServed, Zenon
  <2> QED
      BY <1>17, <2>1, <2>2, <2>3, Zenon DEF Continuation
<1>18. Served(f)
    BY <1>10, <1>13, <1>15, <1>16, <1>17, Zenon
<1>19. ctl' \in Running /\ HandlerIsOpen' /\ Turns
    BY <1>2, <1>3, <1>9, <1>10, <1>18, HandlerTurns, Zenon
<1>20. /\ rx' \in [Fd -> Seq(Item)] /\ resolving' \in SUBSET [id : Nat, shake : Handshake]
       /\ \A r \in resolving' : Asks(r.shake)
    BY <1>9, Zenon DEF WsInv, WsTypeOK, IdentitiesFit
<1> QED
    BY <1>3, <1>9, <1>18, <1>19, <1>20, ServedKeeps, Zenon

\* The owner authenticate arrives at is the one every mechanism agrees on.
LEMMA OwnersAgree ==
    ASSUME NEW h \in Handshake, NEW owner, owner # Nobody,
           owner \in (IF Asks(h) THEN {Verdict(h), Nobody} ELSE {AtOnce(h)})
    PROVE  Agreed(owner, h) /\ owner \in Owners
<1>1. h.header \in User \union {None} /\ h.cred \in User \union {None}
    BY WsConstants, Zenon
<1>2. CASE Asks(h)
    BY <1>1, <1>2, Zenon DEF Agreed, Owners, Verdict, Asks
<1>3. CASE ~Asks(h)
    BY <1>1, <1>3, Zenon DEF Agreed, Owners, AtOnce, Asks
<1> QED
    BY <1>2, <1>3, Zenon

\* on_ws_open: the connection is identified by its own handshake, which nothing
\* was kept about before.
LEMMA OnOpenIsServed ==
    ASSUME WsInv, NEW f \in Fd, conn[f] \in Conn, ~conn[f].open, NEW c \in Conn, c.id = conn[f].id,
           c.open, c.sent = conn[f].sent, c.closed = conn[f].closed, NEW h \in Handshake, c.shake = h,
           NEW x \in OutItem, ~Noteworthy(x), c.out = Append(conn[f].out, x),
           OnOpen(f, c, h), UNCHANGED <<orders, received>>
    PROVE  /\ Served(f) /\ \A r \in resolving' : Asks(r.shake)
           /\ resolving' \in SUBSET [id : Nat, shake : Handshake]
<1>1. PICK w : w = <<x>>
    BY Zenon
<1>2. w \in Seq(OutItem) /\ Notes(w) = {} /\ \A k \in Noteworthies : Orderly(w, k)
    BY <1>1, NotesOfOne, Zenon
<1>3. conn[f].out \in Seq(OutItem) /\ conn[f].id \in Nat /\ conn[f].sent \in Nat /\ WsTypeOK
    BY Zenon DEF Conn, WsInv
<1>4. c.out = conn[f].out \o w
  <2>1. \A s \in Seq(OutItem) : Append(s, x) = s \o w
      BY <1>1
  <2> QED
      BY <1>3, <2>1, Zenon
<1>5. conn[f] # NoConn
    BY ConnIsNotNone, Zenon
<1>6. /\ conn[f].id \notin conn_perframe
      /\ \A e \in conn_owner : e[1] # conn[f].id
      /\ \A r \in resolving : r.id # conn[f].id
    BY <1>5, ZenonT(60) DEF WsInv, IdentitiesFit, Identified
<1>7. ASSUME NEW owners, NEW perframe, Put(f, c, owners, perframe, md_subscribers)
      PROVE  /\ Forgets(f, owners, perframe, md_subscribers) /\ conn'[f] = c
             /\ Informed(f, {}) /\ OrdersDiffer(orders)' /\ Subscribes(f) /\ orders' \in SUBSET Submitted
  <2>1. Changed(f, {}) /\ Forgets(f, owners, perframe, md_subscribers) /\ conn'[f] = c
      BY <1>2, <1>3, <1>4, <1>7, PutIs, ZenonT(60)
  <2>2. Answers(f, {})
    <3>1. OrdersWait(conn[f], Sent(f))
        BY <1>5, Zenon DEF WsInv, ResultsFit
    <3>2. conn'[f].sent = conn[f].sent /\ conn'[f].sent >= conn[f].sent
        BY <1>3, <2>1
    <3> QED
        BY <2>1, <3>1, <3>2, Zenon DEF Answers, OrdersWait
  <2>3. OrdersDiffer(orders)'
      BY Zenon DEF WsInv, ResultsFit, OrdersDiffer
  <2>4. <<conn[f].id, f>> \notin md_subscribers'
    <3>1. PICK s : s = <<conn[f].id, f>>
        BY Zenon
    <3>2. s[2] = f
        BY <3>1, Zenon
    <3>3. s \notin md_subscribers
        BY <3>2, Zenon DEF WsInv, SubscribersInv
    <3> QED
        BY <2>1, <3>1, <3>3, Zenon DEF Forgets
  <2>5. Subscribes(f)
      BY <2>4, Zenon DEF Subscribes
  <2>6. orders' \in SUBSET Submitted
      BY <1>3, Zenon DEF WsTypeOK
  <2> QED
      BY <2>1, <2>2, <2>3, <2>5, <2>6, Zenon DEF Informed
<1>8. /\ conn_owner \in SUBSET (Nat \X Owners) /\ conn_perframe \in SUBSET Nat
      /\ resolving \in SUBSET [id : Nat, shake : Handshake] /\ \A r \in resolving : Asks(r.shake)
    BY Zenon DEF WsInv, WsTypeOK, IdentitiesFit
<1>9. CASE /\ PerFrame(c, h)
           /\ Put(f, c, conn_owner, conn_perframe \union {c.id}, md_subscribers)
           /\ UNCHANGED resolving
  <2>1. /\ Forgets(f, conn_owner, conn_perframe \union {c.id}, md_subscribers) /\ conn'[f] = c
      BY <1>7, <1>9, ZenonT(60)
  <2>2. Belongs(f)
      BY <1>9, <2>1, ZenonT(60) DEF Belongs, Forgets
  <2>3. Identified(conn[f])'
      BY <1>6, <1>9, <2>1, ZenonT(60) DEF Identified, Forgets, PerFrame
  <2>4. conn_owner' \in SUBSET (Nat \X Owners) /\ conn_perframe' \in SUBSET Nat
      BY <1>3, <1>8, <2>1, Zenon DEF Forgets
  <2> QED
      BY <1>7, <1>8, <1>9, <2>2, <2>3, <2>4, Zenon DEF Served
<1>10. CASE /\ Asks(h)
            /\ resolving' = resolving \union {[id |-> c.id, shake |-> h]}
            /\ Put(f, c, conn_owner, conn_perframe, md_subscribers)
  <2>1. /\ Forgets(f, conn_owner, conn_perframe, md_subscribers) /\ conn'[f] = c
      BY <1>7, <1>10, Zenon
  <2>0. PICK r : r = [id |-> c.id, shake |-> h]
      BY ZenonT(60)
  <2>2. resolving' = resolving \union {r} /\ r.id = conn[f].id /\ r.shake = h
      BY <1>10, <2>0, Zenon
  <2>3. Belongs(f)
      BY <2>1, <2>2, Zenon DEF Belongs, Forgets
  <2>4. Identified(conn[f])'
      BY <1>6, <2>1, <2>2, Zenon DEF Identified, Forgets
  <2>5. conn_owner' \in SUBSET (Nat \X Owners) /\ conn_perframe' \in SUBSET Nat
      BY <1>8, <2>1, Zenon DEF Forgets
  <2>6. r \in [id : Nat, shake : Handshake]
      BY <1>3, <2>0, Zenon
  <2>7. /\ \A q \in resolving' : Asks(q.shake)
        /\ resolving' \in SUBSET [id : Nat, shake : Handshake]
      BY <1>8, <1>10, <2>2, <2>6, Zenon
  <2> QED
      BY <1>7, <1>10, <2>3, <2>4, <2>5, <2>7, Zenon DEF Served
<1>11. CASE /\ \E owner \in IF Asks(h) THEN {Verdict(h), Nobody} ELSE {AtOnce(h)} :
                  Put(f, c, Bound(c.id, owner), conn_perframe, md_subscribers)
            /\ UNCHANGED resolving
  <2>1. PICK owner \in IF Asks(h) THEN {Verdict(h), Nobody} ELSE {AtOnce(h)} :
                  Put(f, c, Bound(c.id, owner), conn_perframe, md_subscribers)
      BY <1>11, Zenon
  <2>2. Forgets(f, Bound(c.id, owner), conn_perframe, md_subscribers) /\ conn'[f] = c
      BY <1>7, <2>1, Zenon
  <2>3. \A e \in conn_owner' : e \in conn_owner \/ (e = <<conn[f].id, owner>> /\ owner # Nobody)
      BY <2>2, Zenon DEF Forgets, Bound
  <2>4. owner # Nobody => Agreed(owner, h) /\ owner \in Owners
      BY <2>1, OwnersAgree, Zenon
  <2>5. \A e \in conn_owner' : e \in conn_owner \/ (e[1] = conn[f].id /\ Agreed(e[2], h) /\ e \in Nat \X Owners)
      BY <1>3, <2>3, <2>4, SMTT(30)
  <2>6. Belongs(f)
      BY <1>11, <2>2, <2>5, ZenonT(60) DEF Belongs, Forgets
  <2>7. Identified(conn[f])'
      BY <1>6, <1>11, <2>2, <2>5, ZenonT(60) DEF Identified, Forgets
  <2>8. conn_owner' \in SUBSET (Nat \X Owners) /\ conn_perframe' \in SUBSET Nat
      BY <1>8, <2>2, <2>5, Zenon DEF Forgets
  <2> QED
      BY <1>7, <1>8, <1>11, <2>1, <2>6, <2>7, <2>8, Zenon DEF Served
<1> QED
    BY <1>9, <1>10, <1>11, Zenon DEF OnOpen

\* do_handshake: garbled, no upgrade, or one that opens the connection.
LEMMA DoHandshakeIsServed ==
    ASSUME WsInv, NEW f \in Fd, conn[f] \in Conn, ~conn[f].open, NEW c, Taken(f, c), c.in # <<>>,
           DoHandshake(f, c), UNCHANGED <<orders, received>>
    PROVE  /\ Served(f) /\ \A r \in resolving' : Asks(r.shake)
           /\ resolving' \in SUBSET [id : Nat, shake : Handshake]
<1>1. PICK req, d : req = Head(c.in) /\ d = [c EXCEPT !.in = Tail(@)]
    BY Zenon
<1>2. c \in Conn /\ c.in \in Seq(Item) /\ c.out \in Seq(OutItem)
    BY Zenon DEF Taken, Conn
<1>3. req \in Item /\ Tail(c.in) \in Seq(Item)
    BY <1>1, <1>2
<1>4. Taken(f, d) /\ d.out = c.out /\ d.id = c.id /\ d \in Conn
    BY <1>1, <1>2, <1>3, Zenon DEF Taken, Conn, Alike
<1>5. /\ resolving \in SUBSET [id : Nat, shake : Handshake] /\ \A r \in resolving : Asks(r.shake)
    BY Zenon DEF WsInv, WsTypeOK, IdentitiesFit
<1>6. CASE Put(f, Failed(d), conn_owner, conn_perframe, md_subscribers) /\ UNCHANGED resolving
  <2>1. Failed(d) \in Conn /\ Failed(d).id = d.id /\ Failed(d).out = d.out /\ Alike(Failed(d), d)
      BY <1>4, Zenon DEF Failed, Conn, Alike
  <2> QED
      BY <1>4, <1>5, <1>6, <2>1, PutIsServed, Zenon
<1>7. CASE /\ Put(f, [c EXCEPT !.out = Append(@, [kind |-> "400"]), !.closing = TRUE],
                  conn_owner, conn_perframe, md_subscribers)
           /\ UNCHANGED resolving
  <2>1. PICK p, x : /\ p = [c EXCEPT !.out = Append(@, [kind |-> "400"]), !.closing = TRUE]
                    /\ x = [kind |-> "400"]
      BY Zenon
  <2>2. x \in OutItem /\ ~Noteworthy(x)
      BY <2>1, Zenon DEF OutItem, Noteworthy
  <2>3. Append(c.out, x) \in Seq(OutItem)
      BY <1>2, <2>2, ItemAppended, Zenon
  <2>4. p \in Conn /\ p.id = c.id /\ p.out = Append(c.out, x) /\ Alike(p, c)
      BY <1>2, <2>1, <2>3, Zenon DEF Conn, Alike
  <2> QED
      BY <1>5, <1>7, <2>1, <2>2, <2>4, PutIsServed, Zenon
<1>8. CASE /\ req.kind = "upgrade"
           /\ OnOpen(f, [d EXCEPT !.out = Append(@, [kind |-> "101"]), !.open = TRUE,
                                  !.shake = req.shake], req.shake)
  <2>1. PICK p, x : /\ p = [d EXCEPT !.out = Append(@, [kind |-> "101"]), !.open = TRUE,
                                     !.shake = req.shake]
                    /\ x = [kind |-> "101"]
      BY Zenon
  <2>2. x \in OutItem /\ ~Noteworthy(x)
      BY <2>1, Zenon DEF OutItem, Noteworthy
  <2>3. req.shake \in Handshake
      BY <1>3, <1>8 DEF Item, Frame, Payload, FirstRequest
  <2>4. Append(d.out, x) \in Seq(OutItem)
      BY <1>2, <1>4, <2>2, ItemAppended, Zenon
  <2>5. /\ p \in Conn /\ p.id = d.id /\ p.out = Append(d.out, x) /\ p.open /\ p.shake = req.shake
        /\ p.sent = d.sent /\ p.closed = d.closed
      BY <1>4, <2>1, <2>3, <2>4, Zenon DEF Conn
  <2>6. d.id = conn[f].id /\ d.out = conn[f].out /\ d.sent = conn[f].sent /\ d.closed = conn[f].closed
      BY <1>4, Zenon DEF Taken, Alike
  <2>7. OnOpen(f, p, req.shake)
      BY <1>8, <2>1, Zenon
  <2> QED
      BY <2>2, <2>3, <2>5, <2>6, <2>7, OnOpenIsServed, Zenon
<1> QED
    BY <1>1, <1>6, <1>7, <1>8, Zenon DEF DoHandshake

-----------------------------------------------------------------------------
(* The steps that end a handler, and those of the loop.                    *)

\* Closing connection f, open or not.
LEMMA CloseIsServed ==
    ASSUME WsInv, NEW f \in Fd, conn[f] \in Conn, Close(f), UNCHANGED <<received, orders, resolving>>
    PROVE  Served(f)
<1>1. PICK p : p = Failed(conn[f])
    BY Zenon
<1>2. p \in Conn /\ p.id = conn[f].id /\ p.out = conn[f].out /\ Alike(p, conn[f])
    BY <1>1, Zenon DEF Failed, Conn, Alike
<1>3. Taken(f, conn[f])
    BY Zenon DEF Taken, Alike
<1>4. Put(f, p, conn_owner, conn_perframe, md_subscribers)
    BY <1>1, Zenon DEF Close
<1> QED
    BY <1>2, <1>3, <1>4, PutIsServed, Zenon

\* on_readable, up to its first frame.
LEMMA ReadableKeeps ==
    ASSUME WsInv, NEW f \in Fd, Readable(f)
    PROVE  WsInv'
<1>1. /\ ctl = Idle /\ conn[f] # NoConn
      /\ UNCHANGED <<next_conn_id, orders, received, updates>>
    BY Zenon DEF Readable, Open
<1>2. ctl # Undefined /\ ctl.at # "broadcast" /\ ctl.at # "frames"
    BY <1>1, Zenon DEF Idle, Undefined
<1>3. conn[f] \in Conn /\ rx \in [Fd -> Seq(Item)] /\ rx[f] \in Seq(Item)
    BY <1>1, Zenon DEF WsInv, WsTypeOK
<1>4. /\ resolving \in SUBSET [id : Nat, shake : Handshake] /\ \A r \in resolving : Asks(r.shake)
    BY Zenon DEF WsInv, WsTypeOK, IdentitiesFit
<1>5. CASE Close(f) /\ UNCHANGED <<ctl, resolving>> /\ rx' = [rx EXCEPT ![f] = <<>>]
  <2>1. Served(f)
      BY <1>1, <1>3, <1>5, CloseIsServed, Zenon
  <2>2. rx' \in [Fd -> Seq(Item)]
    <3>1. PICK none : none = <<>>
        BY Zenon
    <3>2. none \in Seq(Item)
        BY <3>1
    <3> QED
        BY <1>3, <1>5, <3>1, <3>2, Zenon
  <2>3. ctl' \in Running /\ HandlerIsOpen' /\ Turns
      BY <1>1, <1>2, <1>5, Zenon DEF Running, HandlerIsOpen, Turns
  <2> QED
      BY <1>1, <1>4, <1>5, <2>1, <2>2, <2>3, ServedKeeps, Zenon
<1>6. CASE /\ \E n \in 1..Len(rx[f]) :
                /\ \E c \in {[conn[f] EXCEPT !.in = @ \o SubSeq(rx[f], 1, n)]} :
                      IF c.open
                      THEN Put(f, c, conn_owner, conn_perframe, md_subscribers) /\ UNCHANGED resolving
                      ELSE DoHandshake(f, c)
                /\ rx' = [rx EXCEPT ![f] = SubSeq(@, n + 1, Len(@))]
           /\ ctl' = IF conn'[f].closed THEN Idle ELSE Frames(f, TRUE)
  <2>1. PICK n, c :
                /\ n \in 1..Len(rx[f])
                /\ c = [conn[f] EXCEPT !.in = @ \o SubSeq(rx[f], 1, n)]
                /\ IF c.open
                   THEN Put(f, c, conn_owner, conn_perframe, md_subscribers) /\ UNCHANGED resolving
                   ELSE DoHandshake(f, c)
                /\ rx' = [rx EXCEPT ![f] = SubSeq(@, n + 1, Len(@))]
      BY <1>6, Zenon
  <2>2. PICK a, b : a = SubSeq(rx[f], 1, n) /\ b = SubSeq(rx[f], n + 1, Len(rx[f]))
      BY Zenon
  <2>3. a \in Seq(Item) /\ b \in Seq(Item) /\ Len(a) = n /\ n \in 1..Len(rx[f])
      BY <1>3, <2>1, <2>2
  <2>4. rx' \in [Fd -> Seq(Item)]
      BY <1>3, <2>1, <2>2, <2>3, Zenon
  <2>5. conn[f].in \in Seq(Item)
      BY <1>3, Zenon DEF Conn
  <2>6. conn[f].in \o a \in Seq(Item) /\ conn[f].in \o a # <<>>
      BY <2>3, <2>5
  <2>7. c = [conn[f] EXCEPT !.in = conn[f].in \o a]
      BY <2>1, <2>2, Zenon
  <2>8. Taken(f, c) /\ c.in # <<>> /\ c \in Conn /\ Alike(c, c) /\ c.open = conn[f].open
      BY <1>3, <2>6, <2>7, Zenon DEF Taken, Conn, Alike
  <2>9. CASE c.open
    <3>1. Put(f, c, conn_owner, conn_perframe, md_subscribers) /\ UNCHANGED resolving
        BY <2>1, <2>9, Zenon
    <3>2. Served(f)
        BY <1>1, <1>3, <2>8, <3>1, PutIsServed, Zenon
    <3>3. ctl' \in Running /\ HandlerIsOpen' /\ Turns
        BY <1>1, <1>2, <1>6, <3>2, HandlerTurns, Zenon
    <3> QED
        BY <1>1, <1>4, <2>4, <3>1, <3>2, <3>3, ServedKeeps, Zenon
  <2>10. CASE ~c.open
    <3>1. DoHandshake(f, c)
        BY <2>1, <2>10, Zenon
    <3>2. /\ Served(f) /\ \A r \in resolving' : Asks(r.shake)
          /\ resolving' \in SUBSET [id : Nat, shake : Handshake]
        BY <1>1, <1>3, <2>8, <2>10, <3>1, DoHandshakeIsServed, Zenon
    <3>3. ctl' \in Running /\ HandlerIsOpen' /\ Turns
        BY <1>1, <1>2, <1>6, <3>2, HandlerTurns, Zenon
    <3> QED
        BY <1>1, <2>4, <3>2, <3>3, ServedKeeps, Zenon
  <2> QED
      BY <2>9, <2>10, Zenon
<1> QED
    BY <1>5, <1>6, Zenon DEF Readable

\* The end of on_readable, or on_writable: what waits is written.
LEMMA FlushKeeps ==
    ASSUME WsInv, NEW f \in Fd, conn[f] # NoConn, NEW least \in Nat,
           Flush(f, conn[f], least, conn_owner, conn_perframe, md_subscribers),
           ctl # Undefined, ctl.at # "broadcast", ctl' = Idle,
           UNCHANGED <<next_conn_id, rx, orders, resolving, updates>>
    PROVE  WsInv'
<1>1. conn[f] \in Conn /\ WsTypeOK /\ conn[f].out \in Seq(OutItem)
    BY Zenon DEF WsInv, WsTypeOK, Conn
<1>2. PICK w : w = <<>>
    BY Zenon
<1>3. w \in Seq(OutItem) /\ DOMAIN w = {} /\ conn[f].out \o w = conn[f].out
    BY <1>1, <1>2, SMTT(30)
<1>4. Notes(w) = {} /\ \A k \in Noteworthies : Orderly(w, k)
    BY <1>3, Zenon DEF Notes, Orderly
<1>5. /\ Changed(f, {}) /\ Forgets(f, conn_owner, conn_perframe, md_subscribers)
      /\ Alike(conn'[f], conn[f])
    BY <1>1, <1>3, <1>4, FlushIs, ZenonT(60)
<1>6. Served(f)
    BY <1>1, <1>5, QuietIsServed, ZenonT(60)
<1>7. ctl' \in Running /\ HandlerIsOpen' /\ Turns
    BY Zenon DEF Running, Idle, HandlerIsOpen, Turns
<1>8. /\ rx' \in [Fd -> Seq(Item)] /\ resolving' \in SUBSET [id : Nat, shake : Handshake]
      /\ \A r \in resolving' : Asks(r.shake)
    BY Zenon DEF WsInv, WsTypeOK, IdentitiesFit
<1> QED
    BY <1>6, <1>7, <1>8, ServedKeeps, Zenon

\* Nothing changes but what waits to be called back, and what is broadcast.
LEMMA StillKeeps ==
    ASSUME WsInv, UNCHANGED <<conn, next_conn_id, resolving, appVars, received>>, Turns,
           rx' \in [Fd -> Seq(Item)], ctl' \in Running, HandlerIsOpen',
           orders' \in SUBSET Submitted, OrdersDiffer(orders)',
           orders' \in SUBSET orders
    PROVE  WsInv'
<1>0. WsTypeOK /\ updates \in Nat
    BY Zenon DEF WsInv, WsTypeOK
<1>1. updates' \in Nat /\ updates' >= updates
    BY <1>0, SMTT(30) DEF Turns
<1>2. WsTypeOK'
    BY <1>0, <1>1, ZenonT(60) DEF WsTypeOK, appVars
<1>3. IdsAreUnique' /\ IdsAreOld'
    BY Zenon DEF WsInv, IdsAreUnique, IdsAreOld, appVars
<1>4. IdentitiesFit'
    BY Zenon DEF WsInv, IdentitiesFit, Identified, appVars
<1>5. \A f \in Fd : Sent(f)' = Sent(f)
    BY Zenon DEF Sent
<1>6. ResultsFit'
    BY <1>5, ZenonT(60) DEF WsInv, ResultsFit, OrdersWait, OrdersDiffer
<1>7. ASSUME NEW f \in Fd, conn[f] # NoConn, NEW x \in Notes(Sent(f)), x.kind = "update"
      PROVE  x.n \in Nat /\ x.n <= updates
  <2>1. Sent(f) \in Seq(OutItem)
      BY <1>0, <1>7 DEF Sent, WsTypeOK, Conn
  <2>2. x.n \in Nat
      BY <2>1, NotesAreItems, Zenon
  <2> QED
      BY <1>7, <2>2, Zenon DEF WsInv, UpdatesInOrder
<1>8. UpdatesInOrder'
  <2>1. \A f \in Fd : conn[f] # NoConn => \A x \in Notes(Sent(f)) : x.kind = "update" => x.n <= updates'
      BY <1>0, <1>1, <1>7
  <2> QED
      BY <1>5, <2>1, Zenon DEF WsInv, UpdatesInOrder
<1>9. SubscribersInv'
  <2>1. md_subscribers' = md_subscribers /\ md_subscribers \in SUBSET (Nat \X Fd)
      BY <1>0, Zenon DEF appVars, WsTypeOK
  <2>2. \A s \in md_subscribers : HasAll(Sent(s[2]), conn[s[2]].since, updates)
      BY <1>0, <1>2, TurnsOwe, Zenon DEF WsInv, SubscribersInv, Turns
  <2>3. \A s \in md_subscribers : Sent(s[2])' = Sent(s[2])
      BY <1>5, <2>1, Zenon
  <2>4. \A s \in md_subscribers' : SeesAll(s)'
      BY <1>0, <1>2, <2>1, <2>2, <2>3, TurnsOwe, Zenon
  <2>5. ASSUME NEW s \in Todo', NEW x \in Notes(Sent(s[2]))', x.kind = "update" PROVE x.n < updates'
    <3>1. s \in md_subscribers /\ updates < updates'
        BY <1>0, <1>2, <2>1, TurnsOwe, Zenon DEF Todo
    <3>2. s[2] \in Fd /\ conn[s[2]] # NoConn /\ x \in Notes(Sent(s[2]))
        BY <2>1, <2>3, <3>1, Zenon DEF WsInv, SubscribersInv, Open
    <3> QED
        BY <1>0, <1>1, <1>7, <2>5, <3>1, <3>2, SMTT(30)
  <2>6. ctl'.at = "broadcast" => updates' > 0
      BY <1>0, <1>2, TurnsOwe, Zenon
  <2>7. \A s \in md_subscribers' : (Open(s[2]) /\ conn[s[2]].open /\ conn[s[2]].id = s[1])'
      BY <2>1, Zenon DEF WsInv, SubscribersInv, Open
  <2>8. \A f \in Fd : conn'[f] = NoConn => received'[f] = <<>>
      BY Zenon DEF WsInv, SubscribersInv
  <2> QED
      BY <2>4, <2>5, <2>6, <2>7, <2>8, ZenonT(60) DEF SubscribersInv
<1> QED
    BY <1>2, <1>3, <1>4, <1>6, <1>8, <1>9, Zenon DEF WsInv

\* The orders are those there were.
LEMMA SameOrders ==
    ASSUME WsInv, orders' = orders
    PROVE  /\ orders' \in SUBSET Submitted /\ OrdersDiffer(orders)'
           /\ orders' \in SUBSET orders
BY Zenon DEF WsInv, WsTypeOK, ResultsFit, OrdersDiffer

\* The end of a read event, with the write of what it answered.
LEMMA FinishReadingKeeps ==
    ASSUME WsInv, FinishReading
    PROVE  WsInv'
<1>1. ctl.at = "frames" /\ ctl \in Running /\ ctl # Undefined /\ ctl.at # "broadcast" /\ ctl' = Idle
    BY DEF FinishReading, WsInv, WsTypeOK, Undefined
<1>2. ctl.fd \in Fd
    BY <1>1 DEF Running, Idle, Undefined
<1>3. conn[ctl.fd] # NoConn
    BY <1>1, Zenon DEF WsInv, HandlerIsOpen, Open
<1>4. UNCHANGED <<next_conn_id, rx, orders, resolving, updates>>
    BY Zenon DEF FinishReading
<1>5. CASE Flush(ctl.fd, conn[ctl.fd], 0, conn_owner, conn_perframe, md_subscribers)
    BY <1>1, <1>2, <1>3, <1>4, <1>5, FlushKeeps, Zenon
<1>6. CASE UNCHANGED <<conn, appVars, received>>
  <2>1. ctl' \in Running /\ HandlerIsOpen' /\ Turns
      BY <1>1, <1>4, Zenon DEF Running, Idle, HandlerIsOpen, Turns
  <2>2. rx' \in [Fd -> Seq(Item)]
      BY <1>4, Zenon DEF WsInv, WsTypeOK
  <2> QED
      BY <1>4, <1>6, <2>1, <2>2, SameOrders, StillKeeps, Zenon
<1> QED
    BY <1>5, <1>6, Zenon DEF FinishReading

\* A client, or the book, does something while no handler runs.
LEMMA OutsideKeeps ==
    ASSUME WsInv, \/ \E f \in Fd : ClientSends(f) \/ ClientShuts(f)
                  \/ BookChanges
    PROVE  WsInv'
<1>1. /\ ctl = Idle /\ UNCHANGED <<conn, next_conn_id, resolving, appVars, received, orders>>
    BY Zenon DEF ClientSends, ClientShuts, BookChanges
<1>2. ctl # Undefined /\ ctl.at # "broadcast" /\ ctl.at # "frames" /\ ctl \in Running
    BY <1>1, Zenon DEF Idle, Undefined, WsInv, WsTypeOK
<1>3. rx \in [Fd -> Seq(Item)] /\ md_subscribers \in SUBSET (Nat \X Fd)
    BY Zenon DEF WsInv, WsTypeOK
<1>4. CASE \E f \in Fd : ClientSends(f)
  <2>1. PICK f \in Fd : ClientSends(f)
      BY <1>4, Zenon
  <2>2. PICK item \in FirstRequest \union Frame : rx' = [rx EXCEPT ![f] = @ \o Bytes(item)]
      BY <2>1, Zenon DEF ClientSends
  <2>3. Bytes(item) \in Seq(Item)
    <3>1. item \in Item /\ Payload \in Item
        BY Zenon DEF Item
    <3>2. <<item, Payload>> \in Seq(Item) /\ <<item>> \in Seq(Item)
        BY <3>1
    <3> QED
        BY <3>2, Zenon DEF Bytes
  <2>4. rx' \in [Fd -> Seq(Item)]
    <3>1. PICK b : b = rx[f] \o Bytes(item)
        BY Zenon
    <3>2. b \in Seq(Item)
        BY <1>3, <2>3, <3>1
    <3> QED
        BY <1>3, <2>2, <3>1, <3>2, Zenon
  <2>5. ctl' \in Running /\ HandlerIsOpen' /\ Turns
      BY <1>2, <2>1, Zenon DEF ClientSends, HandlerIsOpen, Turns
  <2> QED
      BY <1>1, <2>4, <2>5, SameOrders, StillKeeps, Zenon
<1>5. CASE \E f \in Fd : ClientShuts(f)
  <2>1. ctl' \in Running /\ HandlerIsOpen' /\ Turns /\ rx' \in [Fd -> Seq(Item)]
      BY <1>2, <1>3, <1>5, Zenon DEF ClientShuts, HandlerIsOpen, Turns
  <2> QED
      BY <1>1, <2>1, SameOrders, StillKeeps, Zenon
<1>6. CASE BookChanges
  <2>1. /\ ctl' = [at |-> "broadcast", todo |-> md_subscribers] /\ updates' = updates + 1
        /\ rx' = rx /\ md_subscribers' = md_subscribers
      BY <1>6, Zenon DEF BookChanges, Broadcast, appVars
  <2>2. ctl' \in Running /\ HandlerIsOpen' /\ Turns
      BY <1>2, <1>3, <2>1, Zenon DEF Running, HandlerIsOpen, Turns
  <2> QED
      BY <1>1, <1>3, <2>1, <2>2, SameOrders, StillKeeps, Zenon
<1> QED
    BY <1>4, <1>5, <1>6, Zenon

\* deliver_text: the result reaches the connection that sent the order, if that
\* is still the one under its descriptor.
LEMMA DecideKeeps ==
    ASSUME WsInv, NEW o \in orders, NEW accepted \in BOOLEAN, Decide(o, accepted)
    PROVE  WsInv'
<1>1. OrdersDiffer(orders)
    BY Zenon DEF WsInv, ResultsFit, OrdersDiffer
<1>2. /\ ctl = Idle /\ orders' = orders \ {o}
      /\ UNCHANGED <<next_conn_id, rx, resolving>>
      /\ ctl' = IF accepted THEN Broadcast(md_subscribers') ELSE Idle
      /\ updates' = IF ctl' = Idle THEN updates ELSE updates + 1
    BY Zenon DEF Decide
<1>3. /\ o \in Submitted /\ orders' \in SUBSET Submitted /\ OrdersDiffer(orders)'
      /\ orders' \in SUBSET orders /\ o \notin orders'
    BY <1>1, <1>2, Zenon DEF WsInv, WsTypeOK, OrdersDiffer
<1>4. ctl # Undefined /\ ctl.at # "broadcast" /\ ctl.at # "frames"
    BY <1>2, Zenon DEF Idle, Undefined
<1>5. ASSUME md_subscribers' \in SUBSET (Nat \X Fd) PROVE ctl' \in Running /\ HandlerIsOpen' /\ Turns
  <2>1. CASE accepted /\ md_subscribers' # {}
    <3>1. ctl' = [at |-> "broadcast", todo |-> md_subscribers']
        BY <1>2, <2>1, Zenon DEF Broadcast
    <3>2. ctl' # Idle
        BY <3>1, Zenon DEF Idle
    <3>3. updates' = updates + 1
        BY <1>2, <3>2, Zenon
    <3> QED
        BY <1>4, <1>5, <3>1, <3>3, Zenon DEF Running, HandlerIsOpen, Turns
  <2>2. CASE ~(accepted /\ md_subscribers' # {})
    <3>1. ctl' = Idle /\ updates' = updates
        BY <1>2, <2>2, Zenon DEF Broadcast
    <3> QED
        BY <1>4, <3>1, Zenon DEF Running, Idle, HandlerIsOpen, Turns
  <2> QED
      BY <2>1, <2>2, Zenon
<1>6. /\ rx' \in [Fd -> Seq(Item)] /\ resolving' \in SUBSET [id : Nat, shake : Handshake]
      /\ \A r \in resolving' : Asks(r.shake) /\ WsTypeOK /\ orders \in SUBSET Submitted
    BY <1>2, Zenon DEF WsInv, WsTypeOK, IdentitiesFit
<1>7. CASE ~Addressee(o.fd, o.id)
  <2>1. UNCHANGED <<conn, appVars, received>>
      BY <1>7, Zenon DEF Decide
  <2>2. md_subscribers' \in SUBSET (Nat \X Fd)
      BY <2>1, Zenon DEF appVars, WsInv, WsTypeOK
  <2> QED
      BY <1>2, <1>3, <1>5, <1>6, <2>1, <2>2, StillKeeps, Zenon
<1>8. CASE Addressee(o.fd, o.id)
  <2>1. PICK f, x : f = o.fd /\ x = Result(o)
      BY Zenon
  <2>2. f \in Fd /\ conn[f] # NoConn /\ conn[f].id = o.id /\ o.n \in Nat /\ o.id \in Nat
      BY <1>3, <1>8, <2>1, Zenon DEF Addressee, Submitted
  <2>3. conn[f] \in Conn /\ WsTypeOK /\ conn[f].sent \in Nat
      BY <2>2, ZenonT(60) DEF WsInv, WsTypeOK, Conn
  <2>4. x \in OutItem /\ Noteworthy(x) /\ x.kind = "result" /\ x.id = o.id /\ x.n = o.n
      BY <2>1, <2>2, ZenonT(60) DEF Result, OutItem, Noteworthy
  <2>5. SendText(f, conn[f], x, conn_owner, conn_perframe, md_subscribers)
      BY <1>8, <2>1, Zenon DEF Decide
  <2>6. /\ Changed(f, {x}) /\ Forgets(f, conn_owner, conn_perframe, md_subscribers)
        /\ Alike(conn'[f], conn[f])
      BY <2>2, <2>3, <2>4, <2>5, SendTextIs, ZenonT(60)
  <2>7. OrdersWait(conn[f], Sent(f)) /\ Identified(conn[f])
      BY <2>2, Zenon DEF WsInv, ResultsFit, IdentitiesFit
  <2>8. Answers(f, {x})
    <3>1. conn'[f].sent = conn[f].sent
        BY <2>6, Zenon DEF Alike
    <3>2. x.n <= conn[f].sent /\ \A y \in Notes(Sent(f)) : y.kind = "result" => y.n # x.n
        BY <2>2, <2>4, <2>7, ZenonT(60) DEF OrdersWait
    <3>3. ASSUME NEW p \in orders', p.id = conn[f].id
          PROVE  /\ p.n <= conn[f].sent /\ x.n # p.n
                 /\ \A y \in Notes(Sent(f)) : y.kind = "result" => y.n # p.n
      <4>1. p \in orders /\ p # o
          BY <1>3, Zenon
      <4>2. p.n <= conn[f].sent /\ \A y \in Notes(Sent(f)) : y.kind = "result" => y.n # p.n
          BY <2>7, <3>3, <4>1, Zenon DEF OrdersWait
      <4>3. o.n # p.n
          BY <1>1, <2>2, <3>3, <4>1, Zenon DEF OrdersDiffer
      <4> QED
          BY <2>4, <4>2, <4>3, Zenon
    <3>4. conn'[f].sent >= conn[f].sent
        BY <2>3, <3>1, SMTT(30)
    <3> QED
        BY <2>2, <2>4, <3>1, <3>2, <3>3, <3>4, ZenonT(60) DEF Answers
  <2>9. Belongs(f)
      BY <1>2, <1>3, <2>6, ZenonT(60) DEF Belongs, Forgets
  <2>10. Identified(conn[f])'
    <3>1. conn'[f].id = conn[f].id
        BY <2>6, ZenonT(60) DEF Changed
    <3> QED
        BY <1>2, <2>6, <2>7, <3>1, ZenonT(60) DEF Identified, Forgets, Alike
  <2>11. Subscribes(f)
      BY <2>2, <2>3, <2>6, StaysSubscribed, Zenon DEF Alike
  <2>12. /\ conn_owner' \in SUBSET (Nat \X Owners) /\ conn_perframe' \in SUBSET Nat
         /\ md_subscribers' \in SUBSET (Nat \X Fd)
      BY <2>6, Zenon DEF WsInv, WsTypeOK, Forgets
  <2>13. Served(f)
    <3>1. \A y \in {x} : y.kind # "update"
        BY <2>4, Zenon
    <3>2. Informed(f, {x})
        BY <2>6, <2>8, <3>1, Zenon DEF Informed
    <3> QED
        BY <1>3, <2>9, <2>10, <2>11, <2>12, <3>2, Zenon DEF Served
  <2> QED
      BY <1>2, <1>5, <1>6, <2>2, <2>12, <2>13, ServedKeeps, Zenon
<1> QED
    BY <1>7, <1>8, Zenon

\* A broadcast with one subscriber fewer to go.
LEMMA BroadcastGoesOn ==
    ASSUME WsInv, ctl.at = "broadcast", NEW s \in ctl.todo,
           ctl' = Broadcast(ctl.todo \ {s}) \/ ctl' = Undefined
    PROVE  /\ ctl' \in Running /\ HandlerIsOpen'
           /\ Todo' \in SUBSET (ctl.todo \ {s}) /\ Todo = ctl.todo
           /\ ctl' # Undefined => Todo' = ctl.todo \ {s}
           /\ ctl.todo \in SUBSET (Nat \X Fd) /\ updates > 0 /\ updates \in Nat
<1>1. ctl \in Running /\ updates > 0 /\ updates \in Nat
    BY ZenonT(60) DEF WsInv, WsTypeOK, SubscribersInv
<1>2. ctl.todo \in SUBSET (Nat \X Fd)
    BY <1>1, SMTT(30) DEF Running, Idle, Undefined
<1>3. PICK T : T = ctl.todo \ {s}
    BY Zenon
<1>4. T \in SUBSET (Nat \X Fd)
    BY <1>2, <1>3, Zenon
<1>5. CASE ctl' = Undefined
    BY <1>1, <1>2, <1>5, Zenon DEF Running, Undefined, HandlerIsOpen, Todo
<1>6. CASE ctl' = Broadcast(T) /\ T = {}
    BY <1>1, <1>2, <1>3, <1>6, Zenon DEF Running, Broadcast, Idle, HandlerIsOpen, Todo
<1>7. CASE ctl' = Broadcast(T) /\ T # {}
  <2>1. ctl' = [at |-> "broadcast", todo |-> T]
      BY <1>7, Zenon DEF Broadcast
  <2>2. ctl' \in Running /\ ctl'.at = "broadcast" /\ ctl'.todo = T
      BY <1>4, <2>1, Zenon DEF Running
  <2> QED
      BY <1>1, <1>2, <1>3, <2>2, Zenon DEF HandlerIsOpen, Todo
<1> QED
    BY <1>3, <1>5, <1>6, <1>7, Zenon

\* The entries of the subscribers' map name their connection.
LEMMA EntryIs ==
    ASSUME NEW s \in Nat \X Fd, NEW t \in Nat \X Fd, s[1] = t[1], s[2] = t[2]
    PROVE  s = t
BY SMTT(30)

\* The update of a broadcast reaches one more subscriber.
LEMMA UpdateReaches ==
    ASSUME WsInv, WsTypeOK', ctl.at = "broadcast", NEW s \in ctl.todo, NEW f \in Fd, s[2] = f,
           conn[f].id = s[1], NEW x, x.kind = "update", x.n = updates, Changed(f, {x}),
           Forgets(f, conn_owner, conn_perframe, md_subscribers), Alike(conn'[f], conn[f]),
           updates' = updates, ctl' = Broadcast(ctl.todo \ {s}) \/ ctl' = Undefined
    PROVE  SubscribersInv'
<1>1. /\ Todo' \in SUBSET (ctl.todo \ {s}) /\ Todo = ctl.todo
      /\ ctl' # Undefined => Todo' = ctl.todo \ {s}
      /\ ctl.todo \in SUBSET (Nat \X Fd) /\ updates > 0 /\ updates \in Nat
    BY BroadcastGoesOn, ZenonT(60)
<1>2. /\ WsTypeOK /\ IdsAreUnique /\ SubscribersInv /\ ctl # Undefined
      /\ md_subscribers \in SUBSET (Nat \X Fd)
  <2>1. WsTypeOK /\ IdsAreUnique /\ SubscribersInv
      BY Zenon DEF WsInv
  <2>2. ctl # Undefined
      BY SMTT(30) DEF Undefined
  <2> QED
      BY <2>1, <2>2, ZenonT(60) DEF WsTypeOK
<1>3. conn[f] \in Conn /\ conn[f] # NoConn /\ conn'[f] # NoConn /\ conn'[f].id = conn[f].id
    BY ConnIsNotNone, Zenon DEF Changed
<1>4. ASSUME NEW t \in Nat \X Fd, t[2] = f, conn[f].id = t[1] PROVE t = s
    BY <1>1, <1>4, EntryIs, Zenon
<1>5. ASSUME NEW t \in md_subscribers', t # s
      PROVE  /\ t \in md_subscribers /\ t[2] \in Fd \ {f} /\ conn[t[2]] # NoConn
             /\ conn'[t[2]] = conn[t[2]] /\ Sent(t[2])' = Sent(t[2])
  <2>1. t \in md_subscribers /\ t \in Nat \X Fd /\ conn[t[2]] # NoConn /\ conn[t[2]].id = t[1]
      BY <1>2, Zenon DEF Forgets, SubscribersInv, Open
  <2>2. t[2] \in Fd \ {f}
      BY <1>4, <1>5, <2>1, Zenon
  <2> QED
      BY <1>2, <2>1, <2>2, OthersStay, ZenonT(60)
<1>6. ASSUME NEW t \in md_subscribers' PROVE (Open(t[2]) /\ conn[t[2]].open /\ conn[t[2]].id = t[1])'
  <2>1. CASE t = s
    <3>1. s \in md_subscribers /\ ~conn[f].closed /\ conn[f].open
        BY <1>2, <1>6, <2>1, Zenon DEF Forgets, SubscribersInv, Open
    <3>2. ~conn'[f].closed /\ conn'[f].open
        BY <1>3, <1>6, <2>1, <3>1, ZenonT(60) DEF Forgets, Alike
    <3> QED
        BY <1>3, <2>1, <3>2, ZenonT(60) DEF Open
  <2>2. CASE t # s
      BY <1>2, <1>5, <2>2, ZenonT(60) DEF SubscribersInv, Open
  <2> QED
      BY <2>1, <2>2, ZenonT(60)
<1>7. ASSUME ctl' # Undefined, NEW t \in md_subscribers' PROVE SeesAll(t)'
  <2>1. CASE t = s
    <3>1. s \notin Todo' /\ s \in Todo /\ s \in md_subscribers
        BY <1>1, <1>7, <2>1, Zenon DEF Forgets
    <3>2. SeesAll(s)
        BY <1>2, <3>1, Zenon DEF SubscribersInv
    <3>3. \A m \in (conn[f].since + 1)..(updates - 1) : \E y \in Notes(Sent(f)) : y.kind = "update" /\ y.n = m
        BY <3>1, <3>2, ZenonT(60) DEF SeesAll
    <3>4. Notes(Sent(f))' = Notes(Sent(f)) \union {x} /\ conn'[f].since = conn[f].since /\ conn[f].since \in Nat
        BY <1>3, ZenonT(60) DEF Changed, Alike, Conn
    <3>5. \A m \in (conn[f].since + 1)..updates :
              \E y \in Notes(Sent(f)) \union {x} : y.kind = "update" /\ y.n = m
      <4>1. ASSUME NEW m \in (conn[f].since + 1)..updates, m # updates
            PROVE  m \in (conn[f].since + 1)..(updates - 1)
          BY <1>1, <3>4, <4>1
      <4> QED
          BY <3>3, <4>1, ZenonT(60)
    <3> QED
        BY <2>1, <3>1, <3>4, <3>5, ZenonT(60) DEF SeesAll
  <2>2. CASE t # s
    <3>1. SeesAll(t) /\ (t \in Todo' <=> t \in Todo)
        BY <1>1, <1>2, <1>5, <1>7, <2>2, ZenonT(60) DEF SubscribersInv
    <3> QED
        BY <1>5, <2>2, <3>1, Zenon DEF SeesAll
  <2> QED
      BY <2>1, <2>2, ZenonT(60)
<1>8. ASSUME NEW t \in Todo', conn'[t[2]] # NoConn, conn'[t[2]].id = t[1],
             NEW y \in Notes(Sent(t[2]))', y.kind = "update"
      PROVE  y.n < updates'
  <2>1. t \in Todo /\ t # s /\ t \in Nat \X Fd
      BY <1>1, Zenon
  <2>2. t[2] \in Fd \ {f}
      BY <1>3, <1>4, <1>8, <2>1, ZenonT(60)
  <2>3. conn[t[2]] # NoConn
      BY <1>8, <2>2, ZenonT(60) DEF Changed
  <2>4. conn'[t[2]] = conn[t[2]] /\ Sent(t[2])' = Sent(t[2])
      BY <1>2, <2>2, <2>3, OthersStay, Zenon
  <2> QED
      BY <1>2, <1>8, <2>1, <2>3, <2>4, ZenonT(60) DEF SubscribersInv
<1>9. \A g \in Fd : conn'[g] = NoConn => received'[g] = <<>>
    BY <1>2, <1>3, Zenon DEF Changed, SubscribersInv
<1> QED
    BY <1>1, <1>6, <1>7, <1>8, <1>9, ZenonT(60) DEF SubscribersInv

\* broadcast_market_data: one subscriber is told, or passed over.
LEMMA BroadcastToKeeps ==
    ASSUME WsInv, NEW s, BroadcastTo(s)
    PROVE  WsInv'
<1>1. /\ ctl.at = "broadcast" /\ s \in ctl.todo
      /\ ctl' = Broadcast(ctl.todo \ {s}) \/ ctl' = Undefined
      /\ UNCHANGED <<next_conn_id, rx, orders, resolving, updates>>
    BY ZenonT(60) DEF BroadcastTo
<1>2. /\ ctl' \in Running /\ HandlerIsOpen'
      /\ Todo' \in SUBSET (ctl.todo \ {s}) /\ Todo = ctl.todo
      /\ ctl' # Undefined => Todo' = ctl.todo \ {s}
      /\ ctl.todo \in SUBSET (Nat \X Fd) /\ updates > 0 /\ updates \in Nat
    BY <1>1, BroadcastGoesOn, ZenonT(60)
<1>3. /\ rx' \in [Fd -> Seq(Item)] /\ resolving' \in SUBSET [id : Nat, shake : Handshake]
      /\ orders' \in SUBSET Submitted /\ \A r \in resolving' : Asks(r.shake)
      /\ WsTypeOK /\ s[2] \in Fd /\ ctl # Undefined
    BY <1>1, <1>2 DEF WsInv, WsTypeOK, IdentitiesFit, Undefined
<1>4. CASE ~Addressee(s[2], s[1])
  <2>1. UNCHANGED <<conn, appVars, received>>
      BY <1>4, ZenonT(60) DEF BroadcastTo
  <2>2. WsTypeOK'
      BY <1>1, <1>2, <1>3, <2>1, ZenonT(60) DEF WsTypeOK, appVars
  <2>3. IdsAreUnique' /\ IdsAreOld' /\ IdentitiesFit'
      BY <1>1, <2>1, Zenon DEF WsInv, IdsAreUnique, IdsAreOld, IdentitiesFit, Identified, appVars
  <2>4. \A f : Sent(f)' = Sent(f)
      BY <2>1, Zenon DEF Sent
  <2>5. ResultsFit' /\ UpdatesInOrder'
      BY <1>1, <2>1, <2>4, ZenonT(60) DEF WsInv, ResultsFit, UpdatesInOrder, OrdersWait
  <2>6. s \notin md_subscribers
      BY <1>4, Zenon DEF WsInv, SubscribersInv, Open, Addressee
  <2>7. md_subscribers' = md_subscribers
      BY <2>1, Zenon DEF appVars
  <2>8. ctl' # Undefined => \A t \in md_subscribers' : SeesAll(t)'
    <3>1. ASSUME ctl' # Undefined, NEW t \in md_subscribers PROVE SeesAll(t)'
      <4>1. SeesAll(t) /\ (t \in Todo' <=> t \in Todo)
          BY <1>2, <1>3, <2>6, <3>1, Zenon DEF WsInv, SubscribersInv
      <4> QED
          BY <1>1, <2>1, <2>4, <4>1, Zenon DEF SeesAll
    <3> QED
        BY <2>7, <3>1, Zenon
  <2>9. SubscribersInv'
      BY <1>1, <1>2, <2>1, <2>4, <2>7, <2>8, ZenonT(60) DEF WsInv, SubscribersInv, Open
  <2> QED
      BY <1>2, <2>2, <2>3, <2>5, <2>9, Zenon DEF WsInv
<1>5. CASE Addressee(s[2], s[1])
  <2>1. PICK f, x, w : f = s[2] /\ x = [kind |-> "update", n |-> updates] /\ w = <<x>>
      BY ZenonT(60)
  <2>2. f \in Fd /\ conn[f] # NoConn /\ conn[f].id = s[1]
      BY <1>3, <1>5, <2>1, Zenon DEF Addressee
  <2>3. conn[f] \in Conn /\ conn[f].out \in Seq(OutItem)
      BY <1>3, <2>2, Zenon DEF WsTypeOK, Conn
  <2>4. x \in OutItem /\ Noteworthy(x) /\ x.kind = "update" /\ x.n = updates
      BY <1>2, <2>1, Zenon DEF OutItem, Noteworthy
  <2>5. SendText(f, conn[f], x, conn_owner, conn_perframe, md_subscribers)
      BY <1>5, <2>1, Zenon DEF BroadcastTo, AfterUpdate, SendText
  <2>6. /\ Changed(f, {x}) /\ Forgets(f, conn_owner, conn_perframe, md_subscribers)
        /\ Alike(conn'[f], conn[f])
      BY <1>3, <2>2, <2>3, <2>4, <2>5, SendTextIs, ZenonT(60)
  <2>7. Belongs(f)
      BY <1>1, <2>6, ZenonT(60) DEF Belongs, Forgets
  <2>8. WsTypeOK'
      BY <1>1, <1>2, <1>3, <2>6, ZenonT(60) DEF WsTypeOK, Changed, Forgets
  <2>9. IdsAreUnique' /\ IdsAreOld'
      BY <1>1, <2>2, <2>6, <2>7, IdsKept, ZenonT(60) DEF WsInv
  <2>10. IdentitiesFit'
    <3>1. Identified(conn[f]) /\ conn'[f].id = conn[f].id
        BY <2>2, <2>6, ZenonT(60) DEF WsInv, IdentitiesFit, Changed
    <3>2. Identified(conn[f])'
        BY <1>1, <2>6, <3>1, ZenonT(60) DEF Identified, Forgets, Alike
    <3> QED
        BY <1>3, <2>2, <2>6, <2>7, <3>2, IdentitiesKept, ZenonT(60) DEF WsInv
  <2>11. ResultsFit'
    <3>1. OrdersWait(conn[f], Sent(f)) /\ conn[f].sent \in Nat /\ conn'[f].sent = conn[f].sent
        BY <2>2, <2>3, <2>6, ZenonT(60) DEF WsInv, ResultsFit, Conn, Alike
    <3>2. Answers(f, {x})
        BY <1>1, <2>4, <3>1 DEF Answers, OrdersWait
    <3>3. OrdersDiffer(orders)'
        BY <1>1, SameOrders, Zenon
    <3> QED
        BY <2>2, <2>6, <2>7, <2>8, <3>2, <3>3, ResultsKept, Zenon DEF WsInv
  <2>12. UpdatesInOrder'
    <3>1. \A y \in Notes(Sent(f)) : y.kind = "update" => y.n < updates
        BY <1>1, <1>2, <2>1, <2>2, Zenon DEF WsInv, SubscribersInv
    <3>2. Tells(f, {x}) /\ updates' >= updates
        BY <1>1, <1>2, <2>4, <3>1 DEF Tells
    <3> QED
        BY <2>2, <2>6, <2>8, <3>2, UpdatesKept, ZenonT(60) DEF WsInv
  <2>13. SubscribersInv'
      BY <1>1, <2>1, <2>2, <2>4, <2>6, <2>8, UpdateReaches, Zenon
  <2> QED
      BY <1>2, <2>8, <2>9, <2>10, <2>11, <2>12, <2>13, Zenon DEF WsInv
<1> QED
    BY <1>4, <1>5, Zenon

\* A connection is accepted under an id nothing is kept about.
LEMMA AcceptKeeps ==
    ASSUME WsInv, NEW f \in Fd, NEW agg \in BOOLEAN, Accept(f, agg)
    PROVE  WsInv'
<1>1. PICK c : c = NewConn(next_conn_id, agg)
    BY Zenon
<1>2. /\ ctl = Idle /\ conn[f] = NoConn /\ conn' = [conn EXCEPT ![f] = c]
      /\ next_conn_id' = next_conn_id + 1
      /\ UNCHANGED <<rx, ctl, orders, resolving, conn_owner, conn_perframe, md_subscribers, received, updates>>
    BY <1>1, Zenon DEF Accept, appVars
<1>3. WsTypeOK /\ next_conn_id \in Nat \ {0} /\ conn \in [Fd -> Conn \union {NoConn}]
    BY Zenon DEF WsInv, WsTypeOK
<1>4. /\ c \in Conn /\ c.id = next_conn_id /\ c.out = <<>> /\ c # NoConn
  <2>1. PICK none : none = <<>>
      BY Zenon
  <2>2. none \in Seq(Item) /\ none \in Seq(OutItem)
      BY <2>1, SMTT(30)
  <2>3. c \in Conn /\ c.id = next_conn_id /\ c.out = <<>>
      BY <1>1, <1>3, <2>1, <2>2, Zenon DEF NewConn, Conn
  <2> QED
      BY <2>3, ConnIsNotNone, Zenon
<1>5. conn'[f] = c /\ \A g \in Fd \ {f} : conn'[g] = conn[g] /\ Sent(g)' = Sent(g)
    BY <1>2, <1>3, Zenon DEF Sent
<1>6. DOMAIN Sent(f)' = {}
  <2>1. received'[f] = <<>>
      BY <1>2, Zenon DEF WsInv, SubscribersInv
  <2> QED
      BY <1>4, <1>5, <2>1 DEF Sent
<1>7. Notes(Sent(f))' = {} /\ \A k : Orderly(Sent(f), k)'
    BY <1>6, Zenon DEF Notes, Orderly
<1>8. WsTypeOK'
    BY <1>2, <1>3, <1>4 DEF WsTypeOK
<1>9. \A i \in Nat : i < next_conn_id => i < next_conn_id' /\ i # next_conn_id
    BY <1>2, <1>3
<1>10. /\ \A o \in orders : o.id \in Nat
       /\ \A r \in resolving : r.id \in Nat
       /\ \A e \in conn_owner : e[1] \in Nat
       /\ \A i \in conn_perframe : i \in Nat
       /\ \A s \in md_subscribers : s[1] \in Nat /\ s[2] \in Fd
       /\ \A g \in Fd : conn[g] # NoConn => conn[g].id \in Nat
  <2>2. \A o \in orders : o.id \in Nat
      BY <1>3, Zenon DEF WsTypeOK, Submitted
  <2>3. \A g \in Fd : conn[g] # NoConn => conn[g].id \in Nat
      BY <1>3, Zenon DEF Conn
  <2> QED
      BY <1>3, <2>2, <2>3, Zenon DEF WsTypeOK
<1>11. IdsAreOld'
    BY <1>2, <1>9, <1>10, Zenon DEF WsInv, IdsAreOld
<1>12. IdsAreUnique'
  <2>1. \A g \in Fd : conn[g] # NoConn => conn[g].id < next_conn_id' /\ conn[g].id # next_conn_id
      BY <1>9, <1>10, Zenon DEF WsInv, IdsAreUnique
  <2>2. next_conn_id < next_conn_id'
      BY <1>2, <1>3
  <2> QED
      BY <1>4, <1>5, <2>1, <2>2, SMTT(30) DEF WsInv, IdsAreUnique
<1>13. IdentitiesFit'
  <2>1. Identified(conn[f])'
    <3>1. /\ \A e \in conn_owner : e[1] # next_conn_id
          /\ \A i \in conn_perframe : i # next_conn_id
          /\ \A r \in resolving : r.id # next_conn_id
        BY <1>9, <1>10, Zenon DEF WsInv, IdsAreOld
    <3> QED
        BY <1>2, <1>4, <1>5, <3>1, SMTT(30) DEF Identified
  <2>2. ASSUME NEW g \in Fd, conn'[g] # NoConn, g # f PROVE Identified(conn[g])'
    <3>1. conn'[g] = conn[g]
        BY <1>5, <2>2, Zenon
    <3>2. Identified(conn[g])
        BY <2>2, <3>1, Zenon DEF WsInv, IdentitiesFit
    <3> QED
        BY <1>2, <3>1, <3>2, SMTT(30) DEF Identified
  <2> QED
      BY <1>2, <2>1, <2>2, Zenon DEF WsInv, IdentitiesFit
<1>14. ResultsFit'
  <2>1. OrdersWait(conn[f], Sent(f))'
      BY <1>2, <1>4, <1>5, <1>7, <1>9, <1>10, ZenonT(60) DEF WsInv, IdsAreOld, OrdersWait
  <2>2. ASSUME NEW g \in Fd, conn'[g] # NoConn, g # f PROVE OrdersWait(conn[g], Sent(g))'
      BY <1>2, <1>5, <2>2, ZenonT(60) DEF WsInv, ResultsFit, OrdersWait
  <2> QED
      BY <1>2, <2>1, <2>2, ZenonT(60) DEF WsInv, ResultsFit
<1>15. UpdatesInOrder'
    BY <1>2, <1>5, <1>7, Zenon DEF WsInv, UpdatesInOrder
<1>16. SubscribersInv'
  <2>1. ctl.at # "broadcast" /\ ctl # Undefined /\ Todo = {} /\ Todo' = {}
      BY <1>2, Zenon DEF Idle, Undefined, Todo
  <2>2. \A s \in md_subscribers : s[2] \in Fd \ {f}
      BY <1>2, <1>10, ZenonT(60) DEF WsInv, SubscribersInv, Open
  <2>3. \A s \in md_subscribers : SeesAll(s)'
      BY <1>2, <1>5, <2>1, <2>2 DEF WsInv, SubscribersInv, SeesAll
  <2>4. \A s \in md_subscribers : (Open(s[2]) /\ conn[s[2]].open /\ conn[s[2]].id = s[1])'
      BY <1>5, <2>2, Zenon DEF WsInv, SubscribersInv, Open
  <2>5. \A g \in Fd : conn'[g] = NoConn => received'[g] = <<>>
      BY <1>2, <1>4, <1>5, Zenon DEF WsInv, SubscribersInv
  <2> QED
      BY <1>2, <2>1, <2>3, <2>4, <2>5, ZenonT(60) DEF SubscribersInv
<1>17. HandlerIsOpen'
    BY <1>2, Zenon DEF HandlerIsOpen, Idle
<1> QED
    BY <1>8, <1>11, <1>12, <1>13, <1>14, <1>15, <1>16, <1>17, Zenon DEF WsInv

\* The deferred erase; nobody subscribes under the descriptor.
LEMMA EraseKeeps ==
    ASSUME WsInv, NEW f \in Fd, Erase(f)
    PROVE  WsInv'
<1>1. /\ ctl = Idle /\ conn[f] # NoConn /\ conn[f].closed /\ conn' = [conn EXCEPT ![f] = NoConn]
      /\ rx' = [rx EXCEPT ![f] = <<>>] /\ received' = [received EXCEPT ![f] = <<>>]
      /\ UNCHANGED <<next_conn_id, ctl, orders, resolving, conn_owner, conn_perframe, md_subscribers, updates>>
    BY Zenon DEF Erase, appVars
<1>2. /\ WsTypeOK /\ conn \in [Fd -> Conn \union {NoConn}] /\ received \in [Fd -> Seq(OutItem)]
      /\ rx \in [Fd -> Seq(Item)]
    BY Zenon DEF WsInv, WsTypeOK
<1>3. /\ conn'[f] = NoConn /\ received'[f] = <<>>
      /\ \A g \in Fd \ {f} : conn'[g] = conn[g] /\ received'[g] = received[g] /\ Sent(g)' = Sent(g)
    BY <1>1, <1>2, Zenon DEF Sent
<1>4. WsTypeOK'
  <2>1. PICK none : none = <<>>
      BY Zenon
  <2>2. none \in Seq(Item) /\ none \in Seq(OutItem)
      BY <2>1
  <2>3. rx' \in [Fd -> Seq(Item)] /\ received' \in [Fd -> Seq(OutItem)]
      BY <1>1, <1>2, <2>1, <2>2, Zenon
  <2>4. conn' \in [Fd -> Conn \union {NoConn}]
      BY <1>1, <1>2, Zenon
  <2> QED
      BY <1>1, <1>2, <2>3, <2>4, Zenon DEF WsTypeOK
<1>5. IdsAreUnique' /\ IdsAreOld'
    BY <1>1, <1>3, SMTT(30) DEF WsInv, IdsAreUnique, IdsAreOld
<1>6. IdentitiesFit'
  <2>1. ASSUME NEW g \in Fd, conn'[g] # NoConn PROVE Identified(conn[g])'
    <3>1. conn'[g] = conn[g]
        BY <1>3, <2>1, Zenon
    <3>2. Identified(conn[g])
        BY <2>1, <3>1, Zenon DEF WsInv, IdentitiesFit
    <3> QED
        BY <1>1, <3>1, <3>2, SMTT(30) DEF Identified
  <2> QED
      BY <1>1, <2>1, Zenon DEF WsInv, IdentitiesFit
<1>7. ResultsFit'
  <2>1. ASSUME NEW g \in Fd, conn'[g] # NoConn PROVE OrdersWait(conn[g], Sent(g))'
    <3>1. conn'[g] = conn[g] /\ Sent(g)' = Sent(g)
        BY <1>3, <2>1, Zenon
    <3>2. OrdersWait(conn[g], Sent(g))
        BY <2>1, <3>1, Zenon DEF WsInv, ResultsFit
    <3> QED
        BY <1>1, <3>1, <3>2, Zenon DEF OrdersWait
  <2> QED
      BY <1>1, <2>1, Zenon DEF WsInv, ResultsFit
<1>8. UpdatesInOrder'
    BY <1>1, <1>3, Zenon DEF WsInv, UpdatesInOrder
<1>9. SubscribersInv'
  <2>1. ctl.at # "broadcast" /\ ctl # Undefined /\ Todo = {} /\ Todo' = {}
      BY <1>1, Zenon DEF Idle, Undefined, Todo
  <2>2. \A s \in md_subscribers : s[2] \in Fd \ {f}
      BY <1>1, <1>2, Zenon DEF WsInv, SubscribersInv, Open, WsTypeOK
  <2>3. \A s \in md_subscribers : SeesAll(s)'
      BY <1>1, <1>3, <2>1, <2>2 DEF WsInv, SubscribersInv, SeesAll
  <2>4. \A s \in md_subscribers : (Open(s[2]) /\ conn[s[2]].open /\ conn[s[2]].id = s[1])'
      BY <1>3, <2>2, Zenon DEF WsInv, SubscribersInv, Open
  <2>5. \A g \in Fd : conn'[g] = NoConn => received'[g] = <<>>
      BY <1>3, Zenon DEF WsInv, SubscribersInv
  <2> QED
      BY <1>1, <2>1, <2>3, <2>4, <2>5, ZenonT(60) DEF SubscribersInv
<1>10. HandlerIsOpen'
    BY <1>1, Zenon DEF HandlerIsOpen, Idle
<1> QED
    BY <1>4, <1>5, <1>6, <1>7, <1>8, <1>9, <1>10, Zenon DEF WsInv

\* The helper's answer binds the connection that asked, if it is still there.
LEMMA AuthAnswerKeeps ==
    ASSUME WsInv, NEW r \in resolving, NEW resolved \in BOOLEAN, AuthAnswer(r, resolved)
    PROVE  WsInv'
<1>1. /\ resolving' = resolving \ {r} /\ ctl = Idle
      /\ conn_owner' = IF resolved THEN Bound(r.id, Verdict(r.shake)) ELSE conn_owner
      /\ UNCHANGED <<conn, next_conn_id, rx, ctl, orders, conn_perframe, md_subscribers, received, updates>>
    BY Zenon DEF AuthAnswer
<1>2. r.shake \in Handshake /\ r.id \in Nat /\ Asks(r.shake) /\ r.id < next_conn_id
    BY Zenon DEF WsInv, WsTypeOK, IdentitiesFit, IdsAreOld
<1>3. PICK owner : owner = Verdict(r.shake)
    BY Zenon
<1>4. owner # Nobody => Agreed(owner, r.shake) /\ owner \in Owners
    BY <1>2, <1>3, OwnersAgree, Zenon
<1>5. \A e \in conn_owner' :
          e \in conn_owner \/ (e[1] = r.id /\ Agreed(e[2], r.shake) /\ e \in Nat \X Owners)
    BY <1>1, <1>2, <1>3, <1>4, SMTT(30) DEF Bound
<1>6. WsTypeOK'
    BY <1>1, <1>5, Zenon DEF WsInv, WsTypeOK
<1>7. IdsAreUnique' /\ IdsAreOld'
    BY <1>1, <1>2, <1>5, Zenon DEF WsInv, IdsAreUnique, IdsAreOld
<1>8. IdentitiesFit'
  <2>1. ASSUME NEW f \in Fd, conn[f] # NoConn PROVE Identified(conn[f])'
    <3>1. Identified(conn[f])
        BY <2>1, Zenon DEF WsInv, IdentitiesFit
    <3> QED
        BY <1>1, <1>5, <3>1, Zenon DEF Identified
  <2> QED
      BY <1>1, <2>1, Zenon DEF WsInv, IdentitiesFit
<1>9. \A f : Sent(f)' = Sent(f)
    BY <1>1, Zenon DEF Sent
<1>10. ResultsFit' /\ UpdatesInOrder'
    BY <1>1, <1>9, ZenonT(60) DEF WsInv, ResultsFit, UpdatesInOrder, OrdersWait
<1>11. SubscribersInv' /\ HandlerIsOpen'
    BY <1>1, <1>9, ZenonT(60) DEF WsInv, SubscribersInv, SeesAll, Todo, Open, HandlerIsOpen
<1> QED
    BY <1>6, <1>7, <1>8, <1>10, <1>11, Zenon DEF WsInv

-----------------------------------------------------------------------------
(* The invariant, and the properties it gives.                             *)

\* The server starts within the invariant.
LEMMA WsInitEstablishes == WsInit => WsInv
<1> SUFFICES ASSUME WsInit PROVE WsInv
    BY Zenon
<1>1. PICK none : none = <<>>
    BY Zenon
<1>2. none \in Seq(Item) /\ none \in Seq(OutItem)
    BY <1>1, SMTT(30)
<1>3. WsTypeOK
    BY <1>1, <1>2, SMTT(30) DEF WsInit, WsTypeOK, Running, Idle
<1>4. ctl.at = "idle" /\ Todo = {} /\ \A f \in Fd : conn[f] = NoConn
    BY Zenon DEF WsInit, Idle, Todo
<1> QED
    BY <1>3, <1>4, Zenon DEF WsInv, WsInit, IdsAreUnique, IdsAreOld, HandlerIsOpen, IdentitiesFit,
       ResultsFit, UpdatesInOrder, SubscribersInv

\* Every step of the server keeps the invariant.
LEMMA WsNextKeeps ==
    ASSUME WsInv, [WsNext]_wsVars
    PROVE  WsInv'
<1>1. CASE \E f \in Fd, agg \in BOOLEAN : Accept(f, agg)
    BY <1>1, AcceptKeeps, Zenon
<1>2. CASE (\E f \in Fd : ClientSends(f) \/ ClientShuts(f)) \/ BookChanges
    BY <1>2, OutsideKeeps, Zenon
<1>3. CASE \E f \in Fd : Readable(f)
    BY <1>3, ReadableKeeps, Zenon
<1>4. CASE \E f \in Fd : Writable(f)
  <2>1. PICK f \in Fd : Writable(f)
      BY <1>4, Zenon
  <2>2. ctl # Undefined /\ ctl.at # "broadcast" /\ ctl' = Idle /\ conn[f] # NoConn
      BY <2>1, Zenon DEF Writable, Idle, Undefined, Open
  <2> QED
      BY <2>1, <2>2, FlushKeeps, Zenon DEF Writable
<1>5. CASE \E f \in Fd : Broken(f)
  <2>1. PICK f \in Fd : Broken(f)
      BY <1>5, Zenon
  <2>2. ctl # Undefined /\ ctl.at # "broadcast" /\ ctl' = Idle /\ conn[f] # NoConn
      BY <2>1, Zenon DEF Broken, Idle, Undefined, Open
  <2>3. conn[f] \in Conn
      BY <2>1, <2>2, Zenon DEF WsInv, WsTypeOK
  <2>4. Served(f)
      BY <2>1, <2>3, CloseIsServed, Zenon DEF Broken
  <2>5. ctl' \in Running /\ HandlerIsOpen' /\ Turns
      BY <2>1, <2>2, SMTT(30) DEF Broken, Running, Idle, HandlerIsOpen, Turns
  <2>6. /\ rx' \in [Fd -> Seq(Item)] /\ resolving' \in SUBSET [id : Nat, shake : Handshake]
        /\ next_conn_id' = next_conn_id /\ \A r \in resolving' : Asks(r.shake)
      BY <2>1, Zenon DEF Broken, WsInv, WsTypeOK, IdentitiesFit
  <2> QED
      BY <2>4, <2>5, <2>6, ServedKeeps, Zenon
<1>6. CASE \E f \in Fd : Erase(f)
    BY <1>6, EraseKeeps, Zenon
<1>7. CASE HandleFrame
    BY <1>7, HandleFrameKeeps, Zenon
<1>8. CASE FinishReading
    BY <1>8, FinishReadingKeeps, Zenon
<1>9. CASE \E r \in resolving, resolved \in BOOLEAN : AuthAnswer(r, resolved)
    BY <1>9, AuthAnswerKeeps, Zenon
<1>10. CASE \E o \in orders, accepted \in BOOLEAN : Decide(o, accepted)
    BY <1>10, DecideKeeps, Zenon
<1>11. CASE BroadcastStep
    BY <1>11, BroadcastToKeeps, Zenon DEF BroadcastStep
<1>12. CASE UNCHANGED wsVars
  <2>1. \A f : Sent(f)' = Sent(f)
      BY <1>12, Zenon DEF wsVars, Sent
  <2>2. WsTypeOK' /\ IdsAreUnique' /\ IdsAreOld' /\ HandlerIsOpen' /\ IdentitiesFit'
      BY <1>12, ZenonT(60) DEF wsVars, appVars, WsInv, WsTypeOK, IdsAreUnique, IdsAreOld, HandlerIsOpen, Open,
         IdentitiesFit, Identified
  <2>3. ResultsFit' /\ UpdatesInOrder' /\ SubscribersInv'
      BY <1>12, <2>1, ZenonT(60) DEF wsVars, appVars, WsInv, ResultsFit, OrdersWait, UpdatesInOrder,
         SubscribersInv, SeesAll, Todo, Open
  <2> QED
      BY <2>2, <2>3, Zenon DEF WsInv
<1> QED
    BY <1>1, <1>2, <1>3, <1>4, <1>5, <1>6, <1>7, <1>8, <1>9, <1>10, <1>11, <1>12, Zenon DEF WsNext

\* Whatever descriptors are reused, handlers interrupted and answers late: ids
\* are not handed out twice and nothing is kept for one that is to come, what is
\* kept about a connection fits its own handshake, no
\* order that waits has had its result, and subscribers are open connections that have every
\* update (WsServer, and AppServer behind it).
THEOREM WsInvariant == WsSpec => []WsInv
<1>1. WsInit => WsInv
    BY WsInitEstablishes, Zenon
<1>2. WsInv /\ [WsNext]_wsVars => WsInv'
    BY WsNextKeeps, Zenon
<1> QED
    BY <1>1, <1>2, PTL DEF WsSpec

\* A client is sent the results of orders it has sent on this connection, each
\* at most once, even if its descriptor has passed to another connection
\* meanwhile (deliver_text).
THEOREM ResultsAreOwnHolds == WsSpec => []ResultsAreOwn
<1>1. WsInv => ResultsAreOwn
  <2> SUFFICES ASSUME WsInv, NEW f \in Fd, conn[f] # NoConn
               PROVE  /\ \A i \in DOMAIN Sent(f) :
                            Sent(f)[i].kind = "result" =>
                                Sent(f)[i].id = conn[f].id /\ Sent(f)[i].n <= conn[f].sent
                      /\ Distinct(Sent(f))
      BY Zenon DEF ResultsAreOwn
  <2>1. OrdersWait(conn[f], Sent(f))
      BY ZenonT(60) DEF WsInv, ResultsFit
  <2>2. \A i \in DOMAIN Sent(f) : Sent(f)[i].kind = "result" => Sent(f)[i] \in Notes(Sent(f))
      BY Zenon DEF Notes, Noteworthy
  <2>3. Distinct(Sent(f))
      BY <2>1, Zenon DEF OrdersWait, Orderly, Follows, Distinct
  <2> QED
      BY <2>1, <2>2, <2>3, ZenonT(60) DEF OrdersWait
<1> QED
    BY <1>1, WsInvariant, PTL

\* Between events, a subscriber is an open connection under its own descriptor
\* and has every update since it subscribed, once and in order
\* (broadcast_market_data, and the close callback that may run inside it).
THEOREM SubscribersSeeAllHolds == WsSpec => []SubscribersSeeAll
<1>1. WsInv => SubscribersSeeAll
  <2> SUFFICES ASSUME WsInv, ctl.at \notin {"undefined", "broadcast"}, NEW s \in md_subscribers
               PROVE  /\ Open(s[2]) /\ conn[s[2]].open /\ conn[s[2]].id = s[1]
                      /\ Increasing(Sent(s[2]), "update")
                      /\ {n \in Told(Sent(s[2])) : n > conn[s[2]].since} = (conn[s[2]].since + 1)..updates
      BY Zenon DEF SubscribersSeeAll
  <2>1. Open(s[2]) /\ conn[s[2]].open /\ conn[s[2]].id = s[1] /\ conn[s[2]] # NoConn
      BY Zenon DEF WsInv, SubscribersInv, Open
  <2>2. s[2] \in Fd /\ updates \in Nat
      BY Zenon DEF WsInv, WsTypeOK
  <2>3. conn[s[2]].since \in Nat /\ Sent(s[2]) \in Seq(OutItem)
      BY <2>1, <2>2, SMTT(30) DEF WsInv, WsTypeOK, Conn, Sent
  <2>4. /\ Increasing(Sent(s[2]), "update")
        /\ \A x \in Notes(Sent(s[2])) : x.kind = "update" => x.n <= updates
      BY <2>1, <2>2, Zenon DEF WsInv, UpdatesInOrder, Orderly, Follows, Increasing
  <2>5. HasAll(Sent(s[2]), conn[s[2]].since, updates)
    <3>1. ctl # Undefined /\ Todo = {}
        BY SMTT(30) DEF Undefined, Todo
    <3> QED
        BY <3>1, Zenon DEF WsInv, SubscribersInv, SeesAll, HasAll
  <2>6. PICK items, since : items = Sent(s[2]) /\ since = conn[s[2]].since
      BY Zenon
  <2>7. \A n : n \in Told(items) <=> \E x \in Notes(items) : x.kind = "update" /\ x.n = n
      BY Zenon DEF Told, Notes, Noteworthy
  <2>8. ASSUME NEW n \in Told(items), n > since PROVE n \in (since + 1)..updates
    <3>1. PICK x \in Notes(items) : x.kind = "update" /\ x.n = n
        BY <2>7, Zenon
    <3>2. x.n \in Nat /\ x.n <= updates
        BY <2>3, <2>4, <2>6, <3>1, NotesAreItems, Zenon
    <3> QED
        BY <2>2, <2>3, <2>6, <2>8, <3>1, <3>2
  <2>9. ASSUME NEW n \in (since + 1)..updates PROVE n \in Told(items) /\ n > since
    <3>1. \E x \in Notes(items) : x.kind = "update" /\ x.n = n
        BY <2>5, <2>6, Zenon DEF HasAll
    <3>2. n > since
        BY <2>2, <2>3, <2>6
    <3> QED
        BY <2>7, <3>1, <3>2, Zenon
  <2>10. {n \in Told(items) : n > since} = (since + 1)..updates
      BY <2>8, <2>9, Zenon
  <2> QED
      BY <2>1, <2>4, <2>6, <2>10, ZenonT(60)
<1> QED
    BY <1>1, WsInvariant, PTL

\* Order o is for the owner the handshake of its connection resolves to, or its
\* connection names owners frame by frame.
Owned(o) ==
    LET h == conn[o.fd].shake
    IN \/ o.id \in conn_perframe /\ h.header = None /\ h.cred = None
       \/ /\ AuthHeader => o.owner = h.header
          /\ AuthHelper => o.owner = h.cred

\* The order a message submits, if it submits one, is for its owner.
LEMMA MessageIsOwned ==
    ASSUME WsInv, NEW f \in Fd, conn[f] # NoConn, NEW c, c.id = conn[f].id, NEW user,
           OrderMessage(f, c, user), NEW o \in orders' \ orders
    PROVE  Owned(o)
<1>1. Identified(conn[f])
    BY Zenon DEF WsInv, IdentitiesFit
<1>2. CASE UNCHANGED orders
    BY <1>2, ZenonT(60)
<1>3. CASE \E owner \in OwnersOf(c, user) : SubmitOrder(f, c, owner)
  <2>1. PICK owner \in OwnersOf(c, user) : SubmitOrder(f, c, owner)
      BY <1>3, Zenon
  <2>2. o = [fd |-> f, id |-> c.id, n |-> c.sent + 1, owner |-> owner]
      BY <2>1, Zenon DEF SubmitOrder
  <2>3. o.fd = f /\ o.id = conn[f].id /\ o.owner = owner
      BY <2>2, ZenonT(60)
  <2>4. CASE c.id \in conn_perframe
      BY <1>1, <2>3, <2>4, ZenonT(60) DEF Identified, Owned
  <2>5. CASE c.id \notin conn_perframe
    <3>1. PICK e \in conn_owner : e[1] = c.id /\ e[2] = owner
        BY <2>1, <2>5, ZenonT(60) DEF OwnersOf
    <3>2. Agreed(owner, conn[f].shake)
        BY <1>1, <3>1, Zenon DEF Identified
    <3> QED
        BY <2>3, <3>2, ZenonT(60) DEF Agreed, Owned
  <2> QED
      BY <2>4, <2>5, Zenon
<1> QED
    BY <1>2, <1>3, Zenon DEF OrderMessage

\* An order is submitted for the owner its own connection's handshake resolves
\* to, agreed by every mechanism that is enabled; only a per-frame connection
\* names others (handle_ws_message, authenticate).
THEOREM OrdersAreOwnedHolds == WsSpec => OrdersAreOwned
<1>1. ASSUME WsInv, [WsNext]_wsVars PROVE \A o \in orders' \ orders : Owned(o)
  <2> SUFFICES ASSUME NEW o \in orders' \ orders PROVE Owned(o)
      BY Zenon
  <2>1. CASE HandleFrame
    <3>1. PICK f, fr, c : /\ f = ctl.fd /\ fr = Head(conn[f].in)
                          /\ c = [conn[f] EXCEPT !.in = SubSeq(@, Len(Bytes(fr)) + 1, Len(@))]
        BY Zenon
    <3>2. ctl.at = "frames" /\ ctl \in Running
        BY <1>1, <2>1, Zenon DEF HandleFrame, WsInv, WsTypeOK
    <3>3. f \in Fd
        BY <3>1, <3>2 DEF Running, Idle, Undefined
    <3>4. conn[f] # NoConn
        BY <1>1, <3>1, <3>2, Zenon DEF WsInv, HandlerIsOpen, Open
    <3>5. conn[f] \in Conn
        BY <1>1, <3>3, <3>4, Zenon DEF WsInv, WsTypeOK
    <3>6. c.id = conn[f].id /\ [c EXCEPT !.parts = 0].id = conn[f].id
        BY <3>1, <3>5, Zenon DEF Conn
    <3>7. \/ Violation(f, conn[f]) /\ UNCHANGED orders
          \/ Control(f, c, fr) \/ Text(f, c, fr) \/ Continuation(f, c, fr)
        BY <2>1, <3>1, Zenon DEF HandleFrame
    <3>8. \/ UNCHANGED orders \/ OrderMessage(f, c, fr.user)
          \/ OrderMessage(f, [c EXCEPT !.parts = 0], None)
        BY <3>7, Zenon DEF Control, Text, Continuation
    <3> QED
        BY <1>1, <3>3, <3>4, <3>6, <3>8, MessageIsOwned, Zenon
  <2>2. CASE \E p \in orders, accepted \in BOOLEAN : Decide(p, accepted)
      BY <2>2, Zenon DEF Decide
  <2>3. CASE UNCHANGED orders
      BY <2>3, Zenon
  <2> QED
      BY <1>1, <2>1, <2>2, <2>3, Zenon DEF WsNext, wsVars, Accept, ClientSends, ClientShuts, Readable, Writable,
         Broken, Erase, FinishReading, AuthAnswer, BookChanges, BroadcastStep, BroadcastTo
<1>2. WsInv /\ [WsNext]_wsVars =>
        [\A o \in orders' \ orders :
          LET h == conn[o.fd].shake
          IN \/ o.id \in conn_perframe /\ h.header = None /\ h.cred = None
             \/ /\ AuthHeader => o.owner = h.header
                /\ AuthHelper => o.owner = h.cred]_wsVars
    BY <1>1, Zenon DEF Owned
<1> QED
    BY <1>2, WsInvariant, PTL DEF WsSpec, OrdersAreOwned
=============================================================================
