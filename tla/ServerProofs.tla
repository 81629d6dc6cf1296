---------------------------- MODULE ServerProofs ----------------------------
(***************************************************************************)
(* The threads of a worker process, for any number of clients, reactors,   *)
(* pool threads, descriptors and segments: a client gets its own answers,  *)
(* and every open connection has a timer.                                  *)
(***************************************************************************)
EXTENDS Server, Integers, TLAPS

\* Leaves go to the SMT solver, unless they name Zenon or PTL.
USE SMTT(60)

Segments == Clients \X Nat \X Nat
ClientStates == [pc : {"new", "backlog", "open", "closed"}, sent : Nat,
                 got : Seq(Seq(Segments)), gone : BOOLEAN]
Connections == [open : BOOLEAN, by : Reactors \cup {None}, buf : Seq(Segments), fresh : BOOLEAN,
                out : {0, 1}, answer : Seq(Segments)]

CoreTypes ==
    /\ client \in [Clients -> ClientStates] /\ unread \in [Clients -> Nat]
    /\ fd \in [Fds -> Clients \cup {None}]
    /\ users \in [Fds -> Connections]
    /\ \A s \in Fds : users[s].open => users[s].by \in Reactors
    /\ pending \in [Reactors -> Seq(Fds)]
    /\ DOMAIN main = {"pc", "fd", "next"} /\ (main.pc = "push" => main.fd \in Fds)

\* A reactor that is about to append a task knows the descriptor.
Reacting(x) == DOMAIN x = {"pc", "batch", "fd"} /\ (x.pc = "append" => x.fd \in Fds)

\* Timers, tasks and reactors name descriptors.
Places ==
    /\ heap \in [Reactors -> SUBSET Fds]
    /\ tasks \in Seq(Fds) /\ worker \in [Workers -> Fds \cup {None}]
    /\ DOMAIN reactor = Reactors /\ \A r \in Reactors : Reacting(reactor[r])

\* A descriptor is connected to one client, and an open object has a descriptor.
Connected ==
    /\ \A s \in Fds : fd[s] \in Clients => client[fd[s]].pc = "open"
    /\ \A s, t \in Fds : fd[s] = fd[t] /\ fd[s] # None => s = t
    /\ \A s \in Fds : users[s].open => fd[s] \in Clients

\* A descriptor on its way to a reactor is on one way only, and is not in use.
HandedOver(s) == fd[s] \in Clients /\ ~users[s].open
Handed ==
    /\ main.pc = "push" =>
        /\ HandedOver(main.fd)
        /\ \A r \in Reactors : \A i \in 1..Len(pending[r]) : pending[r][i] # main.fd
    /\ \A r \in Reactors : \A i \in 1..Len(pending[r]) : HandedOver(pending[r][i])
    /\ \A r, q \in Reactors : \A i \in 1..Len(pending[r]), j \in 1..Len(pending[q]) :
        pending[r][i] = pending[q][j] => r = q /\ i = j

Whole(c, n) == [p \in 1..Parts |-> <<c, n, p>>]
Upto(n) == Parts * n

\* The answers c has got, and how many of its segments were read.
Got(c) == Len(client[c].got)
Read(c) == client[c].sent - unread[c]

\* What a client has sent, received and got answers to.
Answered(c) ==
    /\ Upto(Got(c)) <= Read(c)
    /\ client[c].sent <= Upto(Got(c)) + Parts
    /\ \A i \in 1..Got(c) : client[c].got[i] = Whole(c, i)

\* The connection u of c, after n answers and m segments that were read: the
\* buffer holds the last of them, none from a request with an answer.  It may hold
\* fewer than it should, as a stale event on the descriptor resets the buffer.
Holds(u, c, n, m) ==
    /\ Upto(n + u.out) + Len(u.buf) <= m
    /\ \A i \in 1..Len(u.buf) : u.buf[i] = Segment(c, m - Len(u.buf) + i)
    /\ u.out = 1 => u.answer = Whole(c, n + 1)

Good(u, c) == Holds(u, c, Got(c), Read(c))

Buffers ==
    /\ \A c \in Clients : Answered(c)
    /\ \A s \in Fds :
        IF users[s].open THEN Good(users[s], fd[s]) ELSE users[s].buf = <<>> /\ users[s].out = 0

Core == CoreTypes /\ Connected /\ Handed /\ Buffers
Inv == ServerAssumption /\ Core /\ Places /\ TimerCovers
-----------------------------------------------------------------------------
(***************************************************************************)
(* Segments of requests                                                    *)
(***************************************************************************)

LEMMA PartsType == ASSUME ServerAssumption PROVE Parts \in Nat /\ Parts > 0
  BY DEF ServerAssumption

LEMMA UptoNext ==
    ASSUME ServerAssumption, NEW n \in Nat
    PROVE  Upto(n) \in Nat /\ Upto(n + 1) = Upto(n) + Parts
  BY PartsType DEF Upto

LEMMA Quotient ==
    ASSUME ServerAssumption, NEW g \in Nat, NEW j \in Nat, j < Parts
    PROVE  (Upto(g) + j) \div Parts = g /\ (Upto(g) + j) % Parts = j
<1> DEFINE x == Upto(g) + j
           k == x \div Parts
           m == x % Parts
<1>1. Parts \in Nat /\ Parts > 0 /\ Upto(g) \in Nat
  BY PartsType, UptoNext
<1>2. x \in Nat /\ k \in Int /\ m \in 0..(Parts - 1) /\ x = Parts * k + m
  BY <1>1
<1>3. x = Parts * g + j
  BY <1>1 DEF Upto
<1> HIDE DEF x, k, m
<1>4. Parts * (k - g) = j - m
  BY <1>1, <1>2, <1>3
<1>5. CASE k - g >= 1
  <2>1. Parts * (k - g) >= Parts
    BY <1>1, <1>2, <1>5
  <2>2. QED  BY <1>1, <1>2, <1>4, <2>1
<1>6. CASE k - g <= -1
  <2>1. Parts * (k - g) <= -Parts
    BY <1>1, <1>2, <1>6
  <2>2. QED  BY <1>1, <1>2, <1>4, <2>1
<1>7. CASE k = g
  <2>1. Parts * (k - g) = 0
    BY <1>1, <1>2, <1>7
  <2>2. m = j
    BY <1>1, <1>2, <1>4, <2>1
  <2>3. QED  BY <1>7, <2>2, ZenonT(60) DEF x, k, m
<1>8. QED  BY <1>2, <1>5, <1>6, <1>7

LEMMA SegmentParts ==
    ASSUME NEW c \in Clients, NEW n \in Nat, NEW k \in Nat, NEW j \in Nat,
           (n - 1) \div Parts = k, (n - 1) % Parts = j
    PROVE  Segment(c, n) = <<c, k + 1, j + 1>>
  BY ZenonT(60) DEF Segment

LEMMA SegmentIs ==
    ASSUME ServerAssumption, NEW c \in Clients, NEW g \in Nat, NEW i \in 1..Parts
    PROVE  Segment(c, Upto(g) + i) = <<c, g + 1, i>>
<1> DEFINE n == Upto(g) + i
           j == i - 1
<1>1. j \in Nat /\ j < Parts /\ Upto(g) \in Nat /\ n \in Nat
  BY PartsType, UptoNext
<1>2. n - 1 = Upto(g) + j /\ j + 1 = i
  BY <1>1
<1> HIDE DEF n, j
<1>3. (n - 1) \div Parts = g /\ (n - 1) % Parts = j
  BY <1>1, <1>2, Quotient, ZenonT(60)
<1>4. Segment(c, n) = <<c, g + 1, j + 1>>
  BY <1>3, ZenonT(60) DEF Segment
<1>5. QED  BY <1>2, <1>4, ZenonT(60) DEF n

-----------------------------------------------------------------------------
(***************************************************************************)
(* The operators                                                           *)
(***************************************************************************)

LEMMA ClosedType ==
    ASSUME NEW by \in Reactors \cup {None}, NEW b \in BOOLEAN
    PROVE  LET u == [Closed(by) EXCEPT !.fresh = b]
           IN  u \in Connections /\ ~u.open /\ u.buf = <<>> /\ u.out = 0
<1>1. <<>> \in Seq(Segments)
  OBVIOUS
<1>2. QED  BY <1>1, ZenonT(60) DEF Closed, Connections

LEMMA InitType ==
    ASSUME NEW r \in Reactors, NEW s
    PROVE  LET u == init(r, s)
           IN  u \in Connections /\ u.open /\ u.by = r /\ u.buf = <<>> /\ u.out = 0
<1>1. <<>> \in Seq(Segments)
  OBVIOUS
<1>2. QED  BY <1>1, ZenonT(60) DEF init, Closed, Connections

\* A step changes at most the object at s, which becomes u.
Becomes(s, u) ==
    users' \in [Fds -> Connections] /\ users'[s] = u /\ \A t \in Fds \ {s} : users'[t] = users[t]

LEMMA UsersStep ==
    ASSUME CoreTypes, NEW s \in Fds, NEW u \in Connections, users' = [users EXCEPT ![s] = u]
    PROVE  Becomes(s, u)
  BY ZenonT(60) DEF CoreTypes, Becomes

\* A step changes at most what concerns c.
ClientBecomes(c, k, n) ==
    /\ client' \in [Clients -> ClientStates] /\ unread' \in [Clients -> Nat]
    /\ client'[c] = k /\ unread'[c] = n
    /\ \A d \in Clients \ {c} : client'[d] = client[d] /\ unread'[d] = unread[d]

LEMMA ClientStep ==
    ASSUME CoreTypes, NEW c \in Clients, NEW k \in ClientStates, NEW n \in Nat,
           client' = [client EXCEPT ![c] = k], unread' = [unread EXCEPT ![c] = n]
    PROVE  ClientBecomes(c, k, n)
  BY ZenonT(60) DEF CoreTypes, ClientBecomes

LEMMA SameUnread ==
    ASSUME CoreTypes, UNCHANGED unread, NEW c \in Clients
    PROVE  unread' = [unread EXCEPT ![c] = unread[c]] /\ unread[c] \in Nat
  BY DEF CoreTypes

-----------------------------------------------------------------------------
(***************************************************************************)
(* Steps of clients, the main thread and reactors on the core              *)
(***************************************************************************)

\* The fields of a client.
LEMMA GotType ==
    ASSUME ServerAssumption, Core, NEW c \in Clients
    PROVE  /\ client[c] \in ClientStates /\ client[c].sent \in Nat /\ unread[c] \in Nat
           /\ client[c].got \in Seq(Seq(Segments)) /\ Got(c) \in Nat /\ Read(c) \in Int
           /\ Upto(Got(c)) \in Nat /\ Parts \in Nat
<1>1. client[c] \in ClientStates /\ unread[c] \in Nat
  BY ZenonT(60) DEF Core, CoreTypes
<1>2. client[c].sent \in Nat /\ client[c].got \in Seq(Seq(Segments))
  BY <1>1, ZenonT(60) DEF ClientStates
<1>3. Got(c) \in Nat /\ Read(c) \in Int
  BY <1>1, <1>2 DEF Got, Read
<1>4. QED  BY <1>1, <1>2, <1>3, UptoNext, PartsType, ZenonT(60)

\* The fields of a connection.
LEMMA UserType ==
    ASSUME ServerAssumption, Core, NEW s \in Fds
    PROVE  /\ users[s] \in Connections /\ users[s].out \in {0, 1} /\ users[s].open \in BOOLEAN
           /\ users[s].buf \in Seq(Segments) /\ Len(users[s].buf) \in Nat
<1>1. users[s] \in Connections
  BY ZenonT(60) DEF Core, CoreTypes
<1>2. /\ users[s].out \in {0, 1} /\ users[s].open \in BOOLEAN /\ users[s].buf \in Seq(Segments)
  BY <1>1, ZenonT(60) DEF Connections
<1>3. QED  BY <1>1, <1>2

\* The step leaves c as it is, as far as a connection is concerned.
Untouched(c) == Got(c)' = Got(c) /\ Read(c)' = Read(c)

LEMMA GoodStays ==
    ASSUME NEW c, Untouched(c), NEW u, Good(u, c)
    PROVE  Holds(u, c, Got(c)', Read(c)')
  BY ZenonT(60) DEF Good, Untouched

\* Nothing of it changes.
LEMMA CoreStays ==
    ASSUME Core, UNCHANGED <<client, unread, fd, users, main, pending>>
    PROVE  Core'
<1>1. CoreTypes' /\ Connected'
  BY ZenonT(60) DEF Core, CoreTypes, Connected
<1>2. Handed'
  BY ZenonT(60) DEF Core, Handed, HandedOver
<1>3. Buffers'
  BY ZenonT(60) DEF Core, Buffers, Answered, Good, Got, Read
<1>4. QED  BY <1>1, <1>2, <1>3, ZenonT(60) DEF Core

\* Buffers', when the step changes the client c and the object at s at most.
LEMMA BuffersStep ==
    ASSUME Core, NEW c \in Clients, Answered(c)',
           \A d \in Clients \ {c} : client'[d] = client[d] /\ unread'[d] = unread[d],
           NEW s \in Fds, \A t \in Fds \ {s} : users'[t] = users[t] /\ fd'[t] = fd[t],
           \A t \in Fds \ {s} : users[t].open /\ fd[t] = c => Untouched(c),
           IF users'[s].open THEN Holds(users'[s], fd'[s], Got(fd[s])', Read(fd[s])')
           ELSE users'[s].buf = <<>> /\ users'[s].out = 0
    PROVE  Buffers'
<1>1. ASSUME NEW d \in Clients \ {c} PROVE Untouched(d) /\ Answered(d)'
  <2>1. client'[d] = client[d] /\ unread'[d] = unread[d] /\ Answered(d)
    BY ZenonT(60) DEF Core, Buffers
  <2>2. QED  BY <2>1, ZenonT(60) DEF Untouched, Answered, Got, Read
<1>2. ASSUME NEW t \in Fds \ {s}, users'[t].open PROVE Good(users[t], fd[t])'
  <2>1. /\ users'[t] = users[t] /\ fd'[t] = fd[t] /\ fd[t] \in Clients
        /\ Good(users[t], fd[t])
    BY <1>2, ZenonT(60) DEF Core, Buffers, Connected
  <2>2. Untouched(fd[t])
    BY <1>1, <1>2, <2>1, ZenonT(60)
  <2>3. Got(fd[t])' = Got(fd[t]) /\ Read(fd[t])' = Read(fd[t])
    BY <2>1, <2>2, ZenonT(60) DEF Untouched, Got, Read
  <2>4. QED  BY <2>1, <2>3, ZenonT(60) DEF Good
<1>3. ASSUME NEW t \in Fds \ {s}, ~users'[t].open
      PROVE  users'[t].buf = <<>> /\ users'[t].out = 0
  BY <1>3, ZenonT(60) DEF Core, Buffers
<1>4. QED  BY <1>1, <1>2, <1>3, ZenonT(60) DEF Buffers, Good

\* A client connects, is refused, sends a segment or hangs up.
LEMMA CoreClient ==
    ASSUME Core, NEW c \in Clients, NEW k \in ClientStates, NEW n \in Nat,
           ClientBecomes(c, k, n), UNCHANGED <<fd, users, main, pending>>,
           Untouched(c), Answered(c)', client[c].pc = "open" => k.pc = "open"
    PROVE  Core'
<1>1. CoreTypes'
  BY ZenonT(60) DEF Core, CoreTypes, ClientBecomes
<1>2. Connected'
  BY ZenonT(60) DEF Core, CoreTypes, Connected, ClientBecomes
<1>3. Handed'
  BY ZenonT(60) DEF Core, Handed, HandedOver
<1>4. ASSUME NEW d \in Clients PROVE Untouched(d) /\ Answered(d)'
  <2>1. CASE d = c
    BY <2>1, ZenonT(60)
  <2>2. CASE d # c
    <3>1. client'[d] = client[d] /\ unread'[d] = unread[d] /\ Answered(d)
      BY <2>2, ZenonT(60) DEF ClientBecomes, Core, Buffers
    <3>2. QED  BY <3>1, ZenonT(60) DEF Answered, Untouched, Got, Read
  <2>3. QED  BY <2>1, <2>2, ZenonT(60)
<1>5. ASSUME NEW s \in Fds, users[s].open PROVE Good(users[s], fd[s])'
  <2>1. fd[s] \in Clients /\ Good(users[s], fd[s]) /\ users'[s] = users[s] /\ fd'[s] = fd[s]
    BY <1>5, ZenonT(60) DEF Core, Connected, Buffers
  <2>2. Got(fd[s])' = Got(fd[s]) /\ Read(fd[s])' = Read(fd[s])
    BY <1>4, <2>1, ZenonT(60) DEF Untouched, Got, Read
  <2>3. QED  BY <2>1, <2>2, ZenonT(60) DEF Good
<1>6. Buffers'
  BY <1>4, <1>5, ZenonT(60) DEF Core, Buffers
<1>7. QED  BY <1>1, <1>2, <1>3, <1>6, ZenonT(60) DEF Core

\* Connect, Refuse and HangUp: only pc or gone changes.
LEMMA ClientMoves ==
    ASSUME ServerAssumption, Core, NEW c \in Clients, Connect(c) \/ Refuse(c) \/ HangUp(c)
    PROVE  Core'
<1>1. PICK k \in ClientStates :
         /\ client' = [client EXCEPT ![c] = k] /\ k.sent = client[c].sent
         /\ k.got = client[c].got /\ (client[c].pc = "open" => k.pc = "open")
  <2>0. client[c] \in ClientStates
    BY GotType, ZenonT(60)
  <2>1. CASE Connect(c)
    <3> DEFINE k == [client[c] EXCEPT !.pc = "backlog"]
    <3>1. k \in ClientStates /\ k.sent = client[c].sent /\ k.got = client[c].got
      BY <2>0, ZenonT(60) DEF ClientStates
    <3>2. client' = [client EXCEPT ![c] = k] /\ client[c].pc = "new"
      BY <2>1, ZenonT(60) DEF Connect
    <3> HIDE DEF k
    <3>3. QED  BY <3>1, <3>2, ZenonT(60)
  <2>2. CASE Refuse(c)
    <3> DEFINE k == [client[c] EXCEPT !.pc = "closed"]
    <3>1. k \in ClientStates /\ k.sent = client[c].sent /\ k.got = client[c].got
      BY <2>0, ZenonT(60) DEF ClientStates
    <3>2. client' = [client EXCEPT ![c] = k] /\ client[c].pc = "backlog"
      BY <2>2, ZenonT(60) DEF Refuse
    <3> HIDE DEF k
    <3>3. QED  BY <3>1, <3>2, ZenonT(60)
  <2>3. CASE HangUp(c)
    <3> DEFINE k == [client[c] EXCEPT !.gone = TRUE]
    <3>1. /\ k \in ClientStates /\ k.sent = client[c].sent /\ k.got = client[c].got
          /\ k.pc = client[c].pc
      BY <2>0, ZenonT(60) DEF ClientStates
    <3>2. client' = [client EXCEPT ![c] = k]
      BY <2>3, ZenonT(60) DEF HangUp
    <3> HIDE DEF k
    <3>3. QED  BY <3>1, <3>2, ZenonT(60)
  <2>4. QED  BY <2>1, <2>2, <2>3, ZenonT(60)
<1>2. UNCHANGED <<unread, fd, users, main, pending>>
  BY ZenonT(60) DEF Connect, Refuse, HangUp, handoff
<1>3. ClientBecomes(c, k, unread[c]) /\ unread[c] \in Nat
  <2>1. CoreTypes
    BY DEF Core
  <2>2. unread' = [unread EXCEPT ![c] = unread[c]] /\ unread[c] \in Nat
    BY <1>2, <2>1, SameUnread, ZenonT(60)
  <2>3. QED  BY <1>1, <2>1, <2>2, ClientStep, ZenonT(60)
<1>4. Untouched(c)
  BY <1>1, <1>3, ZenonT(60) DEF Untouched, Got, Read, ClientBecomes
<1>5. Answered(c)'
  <2>1. Answered(c)
    BY ZenonT(60) DEF Core, Buffers
  <2>2. QED  BY <1>1, <1>3, <2>1, ZenonT(60) DEF Answered, Got, Read, ClientBecomes
<1>6. QED  BY <1>1, <1>2, <1>3, <1>4, <1>5, CoreClient, ZenonT(60)

\* Send adds a segment that is not read yet, of the request after the answers.
LEMMA ClientSends ==
    ASSUME ServerAssumption, Core, NEW c \in Clients, Send(c)
    PROVE  Core'
<1> DEFINE k == [client[c] EXCEPT !.sent = @ + 1]
           n == unread[c] + 1
<1>1. /\ client[c] \in ClientStates /\ client[c].sent \in Nat /\ unread[c] \in Nat
      /\ Got(c) \in Nat /\ Upto(Got(c)) \in Nat /\ Parts \in Nat
  BY GotType, ZenonT(60)
<1>2. client[c].sent + 1 \in Nat /\ n \in Nat
  BY <1>1
<1>3. /\ k \in ClientStates /\ k.sent = client[c].sent + 1 /\ k.got = client[c].got
      /\ k.pc = client[c].pc
  BY <1>1, <1>2, ZenonT(60) DEF ClientStates
<1>4. /\ client' = [client EXCEPT ![c] = k] /\ unread' = [unread EXCEPT ![c] = n]
      /\ UNCHANGED <<fd, users, main, pending>>
      /\ client[c].sent < Parts * (Len(client[c].got) + 1)
  BY ZenonT(60) DEF Send, handoff
<1> HIDE DEF k, n
<1>5. ClientBecomes(c, k, n) /\ Answered(c)
  BY <1>2, <1>3, <1>4, ClientStep, ZenonT(60) DEF Core, Buffers
<1>6. client'[c].sent = client[c].sent + 1 /\ unread'[c] = unread[c] + 1
      /\ client'[c].got = client[c].got
  BY <1>3, <1>5, ZenonT(60) DEF ClientBecomes, n
<1>7. Read(c)' = Read(c) /\ Got(c)' = Got(c)
  BY <1>1, <1>6 DEF Read, Got
<1>8. client[c].sent + 1 <= Upto(Got(c)) + Parts
  <2>1. client[c].sent < Upto(Got(c) + 1)
    BY <1>4, ZenonT(60) DEF Upto, Got
  <2>2. Upto(Got(c) + 1) = Upto(Got(c)) + Parts
    BY <1>1, UptoNext, ZenonT(60)
  <2>3. QED  BY <1>1, <2>1, <2>2
<1>9. Answered(c)'
  BY <1>5, <1>6, <1>7, <1>8, ZenonT(60) DEF Answered
<1>10. Untouched(c)
  BY <1>7, ZenonT(60) DEF Untouched
<1>11. QED  BY <1>2, <1>3, <1>4, <1>5, <1>9, <1>10, CoreClient, ZenonT(60)

\* A descriptor that is on its way is in no use yet.
LEMMA NotHanded ==
    ASSUME Core, NEW s \in Fds, users[s].open \/ fd[s] \notin Clients
    PROVE  /\ main.pc = "push" => main.fd # s
           /\ \A r \in Reactors : \A i \in 1..Len(pending[r]) : pending[r][i] # s
  BY ZenonT(60) DEF Core, Handed, HandedOver

\* The queues are as they were.
LEMMA HandedStep ==
    ASSUME Core, UNCHANGED pending,
           main'.pc = "push" =>
             /\ HandedOver(main.fd)'
             /\ \A r \in Reactors : \A i \in 1..Len(pending[r]) : pending[r][i] # main'.fd,
           \A r \in Reactors : \A i \in 1..Len(pending[r]) : HandedOver(pending[r][i])'
    PROVE  Handed'
  BY ZenonT(60) DEF Core, Handed

\* accept takes a descriptor that nobody has.
LEMMA CoreAccept ==
    ASSUME ServerAssumption, Core, NEW c \in Clients, Accept(c)
    PROVE  Core'
<1>1. PICK s \in Free :
         fd' = [fd EXCEPT ![s] = c] /\ main' = [main EXCEPT !.pc = "push", !.fd = s]
  BY ZenonT(60) DEF Accept
<1> DEFINE k == [client[c] EXCEPT !.pc = "open"]
<1>2. /\ client[c].pc = "backlog" /\ client' = [client EXCEPT ![c] = k]
      /\ UNCHANGED <<unread, users, pending>>
  BY ZenonT(60) DEF Accept
<1>3. client[c] \in ClientStates /\ CoreTypes
  BY GotType, ZenonT(60) DEF Core
<1>4. k \in ClientStates /\ k.sent = client[c].sent /\ k.got = client[c].got /\ k.pc = "open"
  BY <1>3, ZenonT(60) DEF ClientStates
<1> HIDE DEF k
<1>5. unread' = [unread EXCEPT ![c] = unread[c]] /\ unread[c] \in Nat
  BY <1>2, <1>3, SameUnread, ZenonT(60)
<1>6. ClientBecomes(c, k, unread[c])
  BY <1>2, <1>3, <1>4, <1>5, ClientStep, ZenonT(60)
<1>7. /\ s \in Fds /\ fd[s] = None /\ fd[s] \notin Clients /\ ~users[s].open
      /\ fd' \in [Fds -> Clients \cup {None}] /\ fd'[s] = c
      /\ \A t \in Fds \ {s} : fd'[t] = fd[t]
  <2>1. s \in Fds /\ fd[s] = None /\ fd[s] \notin Clients
    BY ZenonT(60) DEF Free, ServerAssumption
  <2>2. QED  BY <1>1, <1>3, <2>1, ZenonT(60) DEF Core, CoreTypes, Connected
<1>8. main'.pc = "push" /\ main'.fd = s /\ DOMAIN main' = {"pc", "fd", "next"}
  BY <1>1, <1>3, ZenonT(60) DEF CoreTypes
<1>9. CoreTypes'
  BY <1>2, <1>3, <1>6, <1>7, <1>8, ZenonT(60) DEF CoreTypes, ClientBecomes
<1>10. \A t \in Fds \ {s} : fd[t] # c
  BY <1>2, ZenonT(60) DEF Core, Connected
<1>11. Connected'
  <2>1. ASSUME NEW t \in Fds, fd'[t] \in Clients PROVE client'[fd'[t]].pc = "open"
    <3>1. CASE t = s
      <4>1. client'[c] = k
        BY <1>6, ZenonT(60) DEF ClientBecomes
      <4>2. QED  BY <1>4, <1>7, <3>1, <4>1, ZenonT(60)
    <3>2. CASE t # s
      <4>1. fd'[t] = fd[t] /\ fd[t] \in Clients \ {c}
        BY <1>7, <1>10, <2>1, <3>2, ZenonT(60)
      <4>2. client'[fd[t]] = client[fd[t]] /\ client[fd[t]].pc = "open"
        BY <1>6, <4>1, ZenonT(60) DEF Core, Connected, ClientBecomes
      <4>3. QED  BY <4>1, <4>2, ZenonT(60)
    <3>3. QED  BY <3>1, <3>2, ZenonT(60)
  <2>2. ASSUME NEW t \in Fds, NEW x \in Fds, fd'[t] = fd'[x], fd'[t] # None PROVE t = x
    BY <1>7, <1>10, <2>2, ZenonT(60) DEF Core, Connected
  <2>3. \A t \in Fds : users'[t].open => fd'[t] \in Clients
    BY <1>2, <1>7, ZenonT(60) DEF Core, Connected
  <2>4. QED  BY <2>1, <2>2, <2>3, ZenonT(60) DEF Connected
<1>12. Handed'
  <2>1. \A r \in Reactors : \A i \in 1..Len(pending[r]) :
           pending[r][i] # s /\ HandedOver(pending[r][i]) /\ pending[r][i] \in Fds
    <3>1. \A r \in Reactors : \A i \in 1..Len(pending[r]) : pending[r][i] \in Fds
      BY <1>3 DEF CoreTypes
    <3>2. QED  BY <1>7, <3>1, NotHanded, ZenonT(60) DEF Core, Handed
  <2>2. HandedOver(s)'
    BY <1>2, <1>7, ZenonT(60) DEF HandedOver
  <2>3. \A r \in Reactors : \A i \in 1..Len(pending[r]) : HandedOver(pending[r][i])'
    BY <1>2, <1>7, <2>1, ZenonT(60) DEF HandedOver
  <2>4. HandedOver(main.fd)'
    BY <1>2, <1>7, <1>8, ZenonT(60) DEF HandedOver
  <2>5. QED  BY <1>2, <1>8, <2>1, <2>3, <2>4, HandedStep, ZenonT(60)
<1>13. Untouched(c) /\ Answered(c)'
  <2>1. Answered(c)
    BY ZenonT(60) DEF Core, Buffers
  <2>2. QED  BY <1>4, <1>6, <2>1, ZenonT(60) DEF Untouched, Answered, Got, Read, ClientBecomes
<1>14. Buffers'
  <2>1. users'[s].buf = <<>> /\ users'[s].out = 0 /\ ~users'[s].open
    BY <1>2, <1>7, ZenonT(60) DEF Core, Buffers
  <2>2. /\ \A d \in Clients \ {c} : client'[d] = client[d] /\ unread'[d] = unread[d]
        /\ \A t \in Fds \ {s} : users'[t] = users[t] /\ fd'[t] = fd[t]
    BY <1>2, <1>6, <1>7, ZenonT(60) DEF ClientBecomes
  <2>3. QED  BY <1>7, <1>13, <2>1, <2>2, BuffersStep, ZenonT(60)
<1>15. QED  BY <1>9, <1>11, <1>12, <1>14, ZenonT(60) DEF Core

\* The connection at s is closed, its descriptor is free.
LEMMA CoreCloses ==
    ASSUME ServerAssumption, Core, NEW s \in Fds, users[s].open, NEW c \in Clients, c = fd[s],
           NEW k \in ClientStates, NEW n \in Nat, ClientBecomes(c, k, n), Answered(c)',
           NEW u \in Connections, ~u.open, u.buf = <<>>, u.out = 0, Becomes(s, u),
           fd' = [fd EXCEPT ![s] = None], UNCHANGED <<main, pending>>
    PROVE  Core'
<1>1. /\ CoreTypes /\ fd' \in [Fds -> Clients \cup {None}] /\ fd'[s] = None
      /\ \A t \in Fds \ {s} : fd'[t] = fd[t] /\ users'[t] = users[t]
      /\ users'[s] = u /\ None \notin Clients
  BY ZenonT(60) DEF Core, CoreTypes, Becomes, ServerAssumption
<1>2. \A t \in Fds \ {s} : fd[t] # c
  BY <1>1, ZenonT(60) DEF Core, Connected
<1>3. CoreTypes'
  BY <1>1, ZenonT(60) DEF CoreTypes, ClientBecomes, Becomes
<1>4. Connected'
  <2>1. ASSUME NEW t \in Fds, fd'[t] \in Clients PROVE client'[fd'[t]].pc = "open"
    <3>1. t # s
      BY <1>1, <2>1, ZenonT(60)
    <3>2. fd'[t] = fd[t] /\ fd[t] \in Clients \ {c}
      BY <1>1, <1>2, <2>1, <3>1, ZenonT(60)
    <3>3. client'[fd[t]] = client[fd[t]] /\ client[fd[t]].pc = "open"
      BY <3>2, ZenonT(60) DEF Core, Connected, ClientBecomes
    <3>4. QED  BY <3>2, <3>3, ZenonT(60)
  <2>2. ASSUME NEW t \in Fds, NEW x \in Fds, fd'[t] = fd'[x], fd'[t] # None PROVE t = x
    BY <1>1, <2>2, ZenonT(60) DEF Core, Connected
  <2>3. \A t \in Fds : users'[t].open => fd'[t] \in Clients
    BY <1>1, ZenonT(60) DEF Core, Connected
  <2>4. QED  BY <2>1, <2>2, <2>3, ZenonT(60) DEF Connected
<1>5. Handed'
  <2>1. /\ main.pc = "push" => main.fd # s /\ main.fd \in Fds
        /\ \A r \in Reactors : \A i \in 1..Len(pending[r]) :
             pending[r][i] # s /\ pending[r][i] \in Fds
    <3>1. \A r \in Reactors : \A i \in 1..Len(pending[r]) : pending[r][i] \in Fds
      BY <1>1 DEF CoreTypes
    <3>2. QED  BY <1>1, <3>1, NotHanded, ZenonT(60) DEF CoreTypes
  <2>2. \A t \in Fds \ {s} : HandedOver(t) => fd'[t] \in Clients /\ ~users'[t].open
    BY <1>1, ZenonT(60) DEF HandedOver
  <2>3. HandedOver(main.fd) /\ main.fd \in Fds \ {s} => HandedOver(main.fd)'
    BY <2>2, ZenonT(60) DEF HandedOver
  <2>4. ASSUME NEW r \in Reactors, NEW i \in 1..Len(pending[r]) PROVE HandedOver(pending[r][i])'
    <3>1. HandedOver(pending[r][i]) /\ pending[r][i] \in Fds \ {s}
      BY <2>1, ZenonT(60) DEF Core, Handed
    <3>2. QED  BY <2>2, <3>1, ZenonT(60) DEF HandedOver
  <2>5. main'.pc = "push" => /\ HandedOver(main.fd)'
                            /\ \A r \in Reactors : \A i \in 1..Len(pending[r]) : pending[r][i] # main.fd
    BY <2>1, <2>3, ZenonT(60) DEF Core, Handed
  <2>6. QED  BY <2>4, <2>5, HandedStep, ZenonT(60)
<1>6. Buffers'
  <2>1. \A d \in Clients \ {c} : client'[d] = client[d] /\ unread'[d] = unread[d]
    BY ZenonT(60) DEF ClientBecomes
  <2>2. QED  BY <1>1, <1>2, <2>1, BuffersStep, ZenonT(60)
<1>7. QED  BY <1>3, <1>4, <1>5, <1>6, ZenonT(60) DEF Core

\* The connection at s stays open; its object and its client change.
LEMMA CoreSlot ==
    ASSUME ServerAssumption, Core, NEW s \in Fds, users[s].open, NEW c \in Clients, c = fd[s],
           NEW k \in ClientStates, NEW n \in Nat, ClientBecomes(c, k, n), k.pc = client[c].pc,
           Answered(c)', NEW u \in Connections, u.open, u.by \in Reactors, Becomes(s, u),
           Holds(u, c, Got(c)', Read(c)'), UNCHANGED <<fd, main, pending>>
    PROVE  Core'
<1>1. /\ CoreTypes /\ users'[s] = u
      /\ \A t \in Fds \ {s} : users'[t] = users[t]
  BY ZenonT(60) DEF Core, Becomes
<1>2. \A t \in Fds \ {s} : fd[t] # c
  BY <1>1, ZenonT(60) DEF Core, Connected, ServerAssumption
<1>3. CoreTypes'
  BY <1>1, ZenonT(60) DEF CoreTypes, ClientBecomes, Becomes
<1>4. Connected'
  <2>1. ASSUME NEW t \in Fds, fd[t] \in Clients PROVE client'[fd[t]].pc = "open"
    <3>1. client[fd[t]].pc = "open"
      BY <2>1, ZenonT(60) DEF Core, Connected
    <3>2. CASE fd[t] = c
      BY <3>1, <3>2, ZenonT(60) DEF ClientBecomes
    <3>3. CASE fd[t] # c
      BY <2>1, <3>1, <3>3, ZenonT(60) DEF ClientBecomes
    <3>4. QED  BY <3>2, <3>3, ZenonT(60)
  <2>2. \A t \in Fds : users'[t].open => fd[t] \in Clients
    BY <1>1, ZenonT(60) DEF Core, Connected
  <2>3. QED  BY <2>1, <2>2, ZenonT(60) DEF Core, Connected
<1>5. Handed'
  <2>1. /\ main.pc = "push" => main.fd \in Fds \ {s}
        /\ \A r \in Reactors : \A i \in 1..Len(pending[r]) : pending[r][i] \in Fds \ {s}
    <3>1. \A r \in Reactors : \A i \in 1..Len(pending[r]) : pending[r][i] \in Fds
      BY <1>1 DEF CoreTypes
    <3>2. QED  BY <1>1, <3>1, NotHanded, ZenonT(60) DEF CoreTypes
  <2>2. \A t \in Fds \ {s} : HandedOver(t) => fd'[t] \in Clients /\ ~users'[t].open
    BY <1>1, ZenonT(60) DEF HandedOver
  <2>3. HandedOver(main.fd) /\ main.fd \in Fds \ {s} => HandedOver(main.fd)'
    BY <2>2, ZenonT(60) DEF HandedOver
  <2>4. ASSUME NEW r \in Reactors, NEW i \in 1..Len(pending[r]) PROVE HandedOver(pending[r][i])'
    <3>1. HandedOver(pending[r][i]) /\ pending[r][i] \in Fds \ {s}
      BY <2>1, ZenonT(60) DEF Core, Handed
    <3>2. QED  BY <2>2, <3>1, ZenonT(60) DEF HandedOver
  <2>5. main'.pc = "push" => /\ HandedOver(main.fd)'
                            /\ \A r \in Reactors : \A i \in 1..Len(pending[r]) : pending[r][i] # main.fd
    BY <2>1, <2>3, ZenonT(60) DEF Core, Handed
  <2>6. QED  BY <2>4, <2>5, HandedStep, ZenonT(60)
<1>6. Buffers'
  <2>1. /\ \A d \in Clients \ {c} : client'[d] = client[d] /\ unread'[d] = unread[d]
        /\ \A t \in Fds \ {s} : users'[t] = users[t] /\ fd'[t] = fd[t]
    BY <1>1, ZenonT(60) DEF ClientBecomes
  <2>2. Holds(users'[s], fd'[s], Got(fd[s])', Read(fd[s])')
    BY <1>1, ZenonT(60) DEF Got, Read
  <2>3. \A t \in Fds \ {s} : users[t].open /\ fd[t] = c => Untouched(c)
    BY <1>2, ZenonT(60)
  <2>4. users'[s].open
    BY <1>1, ZenonT(60)
  <2>5. QED  BY <2>1, <2>2, <2>3, <2>4, BuffersStep, ZenonT(60)
<1>7. QED  BY <1>3, <1>4, <1>5, <1>6, ZenonT(60) DEF Core

\* Only m_has_new_data of the object at s changes.
LEMMA CoreFresh ==
    ASSUME ServerAssumption, Core, NEW s \in Fds, NEW b \in BOOLEAN,
           users' = [users EXCEPT ![s].fresh = b],
           UNCHANGED <<client, unread, fd, main, pending>>
    PROVE  Core'
<1> DEFINE u == [users[s] EXCEPT !.fresh = b]
<1>1. CoreTypes /\ users[s] \in Connections
  BY UserType, ZenonT(60) DEF Core
<1>2. /\ u \in Connections /\ u.open = users[s].open /\ u.by = users[s].by
      /\ u.buf = users[s].buf /\ u.out = users[s].out /\ u.answer = users[s].answer
  BY <1>1, ZenonT(60) DEF Connections
<1>3. users' = [users EXCEPT ![s] = u]
  BY ZenonT(60)
<1> HIDE DEF u
<1>4. Becomes(s, u)
  BY <1>1, <1>2, <1>3, UsersStep, ZenonT(60)
<1>5. \A t \in Fds :
        /\ users'[t].open = users[t].open /\ users'[t].by = users[t].by
        /\ users'[t].buf = users[t].buf /\ users'[t].out = users[t].out
        /\ users'[t].answer = users[t].answer
  BY <1>2, <1>4, ZenonT(60) DEF Becomes
<1>6. CoreTypes'
  BY <1>1, <1>4, <1>5, ZenonT(60) DEF CoreTypes, Becomes
<1>7. Connected'
  BY <1>5, ZenonT(60) DEF Core, Connected
<1>8. Handed'
  <2>1. \A t \in Fds : HandedOver(t) => fd'[t] \in Clients /\ ~users'[t].open
    BY <1>5, ZenonT(60) DEF HandedOver
  <2>2. HandedOver(main.fd) /\ main.fd \in Fds => HandedOver(main.fd)'
    BY <2>1, ZenonT(60) DEF HandedOver
  <2>3. ASSUME NEW r \in Reactors, NEW i \in 1..Len(pending[r]) PROVE HandedOver(pending[r][i])'
    <3>1. pending[r][i] \in Fds
      BY <1>1 DEF CoreTypes
    <3>2. HandedOver(pending[r][i])
      BY ZenonT(60) DEF Core, Handed
    <3>3. QED  BY <2>1, <3>1, <3>2, ZenonT(60) DEF HandedOver
  <2>4. main'.pc = "push" => /\ HandedOver(main.fd)'
                            /\ \A r \in Reactors : \A i \in 1..Len(pending[r]) : pending[r][i] # main.fd
    BY <1>1, <2>2, ZenonT(60) DEF Core, Handed, CoreTypes
  <2>5. QED  BY <2>3, <2>4, HandedStep, ZenonT(60)
<1>9. Buffers'
  <2>1. \A c \in Clients : Answered(c)'
    BY ZenonT(60) DEF Core, Buffers, Answered, Got, Read
  <2>2. ASSUME NEW t \in Fds, users[t].open PROVE Good(users[t], fd[t])'
    <3>1. Good(users[t], fd[t])
      BY <2>2, ZenonT(60) DEF Core, Buffers
    <3>2. QED  BY <1>5, <3>1, ZenonT(60) DEF Good, Holds, Got, Read
  <2>3. QED  BY <1>5, <2>1, <2>2, ZenonT(60) DEF Core, Buffers
<1>10. QED  BY <1>6, <1>7, <1>8, <1>9, ZenonT(60) DEF Core

\* The main thread puts the descriptor into the queue of one reactor.
LEMMA CorePush ==
    ASSUME ServerAssumption, Core, PushPending
    PROVE  Core'
<1> DEFINE s == main.fd
           q == main.next
<1>1. /\ CoreTypes /\ main.pc = "push" /\ s \in Fds /\ HandedOver(s)
      /\ \A r \in Reactors : \A i \in 1..Len(pending[r]) : pending[r][i] # s
  BY ZenonT(60) DEF PushPending, Core, CoreTypes, Handed
<1>2. UNCHANGED <<client, unread, fd, interest, users>>
  BY ZenonT(60) DEF PushPending, net
<1>3. main'.pc = "notify" /\ DOMAIN main' = {"pc", "fd", "next"}
  BY <1>1, ZenonT(60) DEF PushPending, CoreTypes
<1>4. pending' = [pending EXCEPT ![q] = Append(@, s)] /\ pending \in [Reactors -> Seq(Fds)]
  BY <1>1, ZenonT(60) DEF PushPending, CoreTypes
<1> HIDE DEF s, q
<1>5. pending' \in [Reactors -> Seq(Fds)]
  <2>1. \A x \in Seq(Fds) : Append(x, s) \in Seq(Fds)
    BY <1>1
  <2>2. QED  BY <1>4, <2>1, ZenonT(60)
<1>6. \A r \in Reactors \ {q} : pending'[r] = pending[r]
  BY <1>4, ZenonT(60)
<1>7. ASSUME q \in Reactors
      PROVE  /\ Len(pending'[q]) = Len(pending[q]) + 1 /\ pending'[q][Len(pending[q]) + 1] = s
             /\ \A i \in 1..Len(pending[q]) : pending'[q][i] = pending[q][i]
             /\ Len(pending[q]) \in Nat
  BY <1>1, <1>4, <1>7
<1>8. CoreTypes'
  BY <1>1, <1>2, <1>3, <1>5, ZenonT(60) DEF CoreTypes
<1>9. Connected'
  BY <1>2, ZenonT(60) DEF Core, Connected
<1>10. ASSUME NEW r \in Reactors, NEW i \in 1..Len(pending'[r])
       PROVE  \/ i \in 1..Len(pending[r]) /\ pending'[r][i] = pending[r][i]
              \/ r = q /\ i = Len(pending[q]) + 1 /\ pending'[r][i] = s
  <2>1. CASE r # q
    BY <1>6, <1>10, <2>1, ZenonT(60)
  <2>2. CASE r = q
    BY <1>7, <1>10, <2>2
  <2>3. QED  BY <2>1, <2>2, ZenonT(60)
<1>11. Handed'
  <2>1. \A t \in Fds : HandedOver(t) => fd'[t] \in Clients /\ ~users'[t].open
    BY <1>2, ZenonT(60) DEF HandedOver
  <2>2. ASSUME NEW r \in Reactors, NEW i \in 1..Len(pending'[r]) PROVE HandedOver(pending[r][i])'
    <3>1. HandedOver(pending'[r][i])
      BY <1>1, <1>10, <2>2, ZenonT(60) DEF Core, Handed
    <3>2. QED  BY <1>2, <3>1, ZenonT(60) DEF HandedOver
  <2>3. ASSUME NEW r \in Reactors, NEW p \in Reactors, NEW i \in 1..Len(pending'[r]),
               NEW j \in 1..Len(pending'[p]), pending'[r][i] = pending'[p][j]
        PROVE  r = p /\ i = j
    <3>1. CASE i \in 1..Len(pending[r]) /\ pending'[r][i] = pending[r][i]
      <4>1. j \in 1..Len(pending[p]) /\ pending'[p][j] = pending[p][j]
        BY <1>1, <1>10, <2>3, <3>1, ZenonT(60)
      <4>2. pending[r][i] = pending[p][j]
        BY <2>3, <3>1, <4>1, ZenonT(60)
      <4>3. QED  BY <3>1, <4>1, <4>2, ZenonT(60) DEF Core, Handed
    <3>2. CASE r = q /\ i = Len(pending[q]) + 1 /\ pending'[r][i] = s
      <4>1. p = q /\ j = Len(pending[q]) + 1
        BY <1>1, <1>10, <2>3, <3>2, ZenonT(60)
      <4>2. QED  BY <3>2, <4>1, ZenonT(60)
    <3>3. QED  BY <1>10, <3>1, <3>2, ZenonT(60)
  <2>4. QED  BY <1>3, <2>2, <2>3 DEF Handed
<1>12. Buffers'
  BY <1>2, ZenonT(60) DEF Core, Buffers, Answered, Good, Got, Read
<1>13. QED  BY <1>8, <1>9, <1>11, <1>12, ZenonT(60) DEF Core

LEMMA CoreNotify ==
    ASSUME ServerAssumption, Core, NotifyReactor
    PROVE  Core'
<1>1. UNCHANGED <<client, unread, fd, users, pending>>
  BY ZenonT(60) DEF NotifyReactor, net
<1>2. main'.pc = "wait" /\ DOMAIN main' = {"pc", "fd", "next"}
  BY ZenonT(60) DEF NotifyReactor
<1>3. CoreTypes' /\ Connected'
  BY <1>1, <1>2, ZenonT(60) DEF Core, CoreTypes, Connected
<1>4. \A r \in Reactors : \A i \in 1..Len(pending[r]) : HandedOver(pending[r][i])'
  BY <1>1, ZenonT(60) DEF Core, Handed, HandedOver
<1>5. Handed'
  BY <1>1, <1>2, <1>4, HandedStep, ZenonT(60)
<1>6. Buffers'
  BY <1>1, ZenonT(60) DEF Core, Buffers, Answered, Good, Got, Read
<1>7. QED  BY <1>3, <1>5, <1>6, ZenonT(60) DEF Core

LEMMA Distinct ==
    ASSUME Core, NEW r \in Reactors, NEW q \in Reactors, NEW i \in 1..Len(pending[r]),
           NEW j \in 1..Len(pending[q]), pending[r][i] = pending[q][j]
    PROVE  r = q /\ i = j
  BY ZenonT(60) DEF Core, Handed

\* The reactor takes the first descriptor of its queue into use.
LEMMA CoreRegister ==
    ASSUME ServerAssumption, Core, NEW r \in Reactors, register_connection(r)
    PROVE  Core'
<1>0. PICK s : s = Head(pending[r])
  OBVIOUS
<1> DEFINE u == init(r, s)
<1>1. /\ pending[r] # <<>> /\ users' = [users EXCEPT ![s] = u]
      /\ pending' = [pending EXCEPT ![r] = Tail(@)] /\ UNCHANGED <<client, unread, fd, main>>
  BY <1>0, ZenonT(60) DEF register_connection
<1>2. CoreTypes /\ pending \in [Reactors -> Seq(Fds)]
  BY ZenonT(60) DEF Core, CoreTypes
<1>3. /\ s \in Fds /\ s = pending[r][1] /\ 1 \in 1..Len(pending[r])
      /\ pending' \in [Reactors -> Seq(Fds)] /\ Len(pending[r]) \in Nat
      /\ Len(pending'[r]) = Len(pending[r]) - 1
      /\ \A i \in 1..Len(pending'[r]) :
           i + 1 \in 1..Len(pending[r]) /\ pending'[r][i] = pending[r][i + 1] /\ i + 1 # 1
  BY <1>0, <1>1, <1>2
<1>4. u \in Connections /\ u.open /\ u.by = r /\ u.buf = <<>> /\ u.out = 0
  BY InitType, ZenonT(60)
<1> HIDE DEF u
<1>5. Becomes(s, u)
  BY <1>1, <1>2, <1>3, <1>4, UsersStep, ZenonT(60)
<1>6. HandedOver(s)
  BY <1>3, ZenonT(60) DEF Core, Handed
<1>7. fd[s] \in Clients
  BY <1>6, ZenonT(60) DEF HandedOver
<1>8. CoreTypes'
  BY <1>1, <1>2, <1>3, <1>4, <1>5, ZenonT(60) DEF CoreTypes, Becomes
<1>9. Connected'
  BY <1>1, <1>5, <1>7, ZenonT(60) DEF Core, Connected, Becomes
<1>10. ASSUME NEW q \in Reactors, NEW i \in 1..Len(pending'[q])
       PROVE  \/ q # r /\ i \in 1..Len(pending[q]) /\ pending'[q][i] = pending[q][i]
              \/ q = r /\ i + 1 \in 1..Len(pending[q]) /\ pending'[q][i] = pending[q][i + 1] /\ i + 1 # 1
  BY <1>1, <1>2, <1>3, ZenonT(60)
<1>11. ASSUME NEW q \in Reactors, NEW i \in 1..Len(pending'[q])
       PROVE  HandedOver(pending'[q][i]) /\ pending'[q][i] \in Fds \ {s}
              /\ (main.pc = "push" => pending'[q][i] # main.fd)
  <2>0. pending'[q][i] \in Fds
    BY <1>3
  <2>1. CASE q # r /\ i \in 1..Len(pending[q]) /\ pending'[q][i] = pending[q][i]
    <3>1. HandedOver(pending[q][i]) /\ (main.pc = "push" => pending[q][i] # main.fd)
      BY <2>1, ZenonT(60) DEF Core, Handed
    <3>2. pending[q][i] # pending[r][1]
      BY <1>3, <2>1, ZenonT(60) DEF Core, Handed
    <3>3. QED  BY <1>3, <2>0, <2>1, <3>1, <3>2, ZenonT(60)
  <2>2. CASE q = r /\ i + 1 \in 1..Len(pending[q]) /\ pending'[q][i] = pending[q][i + 1] /\ i + 1 # 1
    <3>1. HandedOver(pending[q][i + 1]) /\ (main.pc = "push" => pending[q][i + 1] # main.fd)
      BY <2>2, ZenonT(60) DEF Core, Handed
    <3>2. pending[q][i + 1] # pending[r][1]
      BY <1>3, <2>2, Distinct
    <3>3. QED  BY <1>3, <2>0, <2>2, <3>1, <3>2, ZenonT(60)
  <2>3. QED  BY <1>10, <2>1, <2>2, ZenonT(60)
<1>12. ASSUME NEW q \in Reactors, NEW p \in Reactors, NEW i \in 1..Len(pending'[q]),
              NEW j \in 1..Len(pending'[p]), pending'[q][i] = pending'[p][j]
       PROVE  q = p /\ i = j
  <2>0. i \in Int /\ j \in Int
    OBVIOUS
  <2>1. CASE q # r /\ i \in 1..Len(pending[q]) /\ pending'[q][i] = pending[q][i]
    <3>1. CASE p # r /\ j \in 1..Len(pending[p]) /\ pending'[p][j] = pending[p][j]
      <4>1. pending[q][i] = pending[p][j]
        BY <1>12, <2>1, <3>1, ZenonT(60)
      <4>2. QED  BY <2>1, <3>1, <4>1, Distinct
    <3>2. CASE p = r /\ j + 1 \in 1..Len(pending[p]) /\ pending'[p][j] = pending[p][j + 1]
      <4>1. pending[q][i] = pending[p][j + 1]
        BY <1>12, <2>1, <3>2, ZenonT(60)
      <4>2. QED  BY <2>1, <3>2, <4>1, Distinct
    <3>3. QED  BY <1>10, <3>1, <3>2, ZenonT(60)
  <2>2. CASE q = r /\ i + 1 \in 1..Len(pending[q]) /\ pending'[q][i] = pending[q][i + 1]
    <3>1. CASE p # r /\ j \in 1..Len(pending[p]) /\ pending'[p][j] = pending[p][j]
      <4>1. pending[q][i + 1] = pending[p][j]
        BY <1>12, <2>2, <3>1, ZenonT(60)
      <4>2. QED  BY <2>2, <3>1, <4>1, Distinct
    <3>2. CASE p = r /\ j + 1 \in 1..Len(pending[p]) /\ pending'[p][j] = pending[p][j + 1]
      <4>1. pending[q][i + 1] = pending[p][j + 1]
        BY <1>12, <2>2, <3>2, ZenonT(60)
      <4>2. q = p /\ i + 1 = j + 1
        BY <2>2, <3>2, <4>1, Distinct
      <4>3. QED  BY <2>0, <4>2
    <3>3. QED  BY <1>10, <3>1, <3>2, ZenonT(60)
  <2>3. QED  BY <1>10, <2>1, <2>2, ZenonT(60)
<1>13. Handed'
  <2>1. \A t \in Fds \ {s} : HandedOver(t) => fd'[t] \in Clients /\ ~users'[t].open
    BY <1>1, <1>5, ZenonT(60) DEF HandedOver, Becomes
  <2>2. ASSUME NEW q \in Reactors, NEW i \in 1..Len(pending'[q]) PROVE HandedOver(pending[q][i])'
    BY <1>11, <2>1, ZenonT(60) DEF HandedOver
  <2>3. ASSUME main.pc = "push" PROVE HandedOver(main.fd)'
    <3>1. main.fd \in Fds /\ HandedOver(main.fd) /\ main.fd # pending[r][1]
      BY <1>2, <1>3, <2>3, ZenonT(60) DEF Core, CoreTypes, Handed
    <3>2. main.fd \in Fds \ {s}
      BY <1>3, <3>1, ZenonT(60)
    <3>3. QED  BY <1>1, <2>1, <3>1, <3>2, ZenonT(60) DEF HandedOver
  <2>4. main'.pc = "push" =>
          /\ HandedOver(main.fd)'
          /\ \A q \in Reactors : \A i \in 1..Len(pending'[q]) : pending'[q][i] # main'.fd
    BY <1>1, <1>11, <2>3, ZenonT(60)
  <2>5. QED  BY <1>12, <2>2, <2>4, ZenonT(60) DEF Handed
<1>14. Buffers'
  <2>1. PICK c \in Clients : c = fd[s]
    BY <1>7, ZenonT(60)
  <2>2. client'[c] = client[c] /\ unread'[c] = unread[c] /\ Answered(c)
    BY <1>1, ZenonT(60) DEF Core, Buffers
  <2>3. Answered(c)' /\ Untouched(c)
    BY <2>2, ZenonT(60) DEF Answered, Untouched, Got, Read
  <2>4. Holds(u, c, Got(c), Read(c))
    <3>1. Upto(Got(c)) <= Read(c) /\ Got(c) \in Nat /\ Read(c) \in Int
      BY <2>2, GotType, ZenonT(60) DEF Answered
    <3>2. Upto(Got(c) + u.out) + Len(u.buf) <= Read(c)
      <4>1. Got(c) + u.out = Got(c) /\ Len(u.buf) = 0 /\ Upto(Got(c)) \in Nat
        BY <1>4, <3>1, UptoNext
      <4>2. QED  BY <3>1, <4>1
    <3>3. Len(u.buf) = 0 /\ u.out # 1
      BY <1>4
    <3>4. QED  BY <3>2, <3>3 DEF Holds
  <2>5. Holds(users'[s], fd'[s], Got(fd[s])', Read(fd[s])')
    <3>1. Got(fd[s])' = Got(c) /\ Read(fd[s])' = Read(c) /\ users'[s] = u /\ fd'[s] = c
      BY <1>1, <1>5, <2>1, ZenonT(60) DEF Got, Read, Becomes
    <3>2. QED  BY <2>4, <3>1, ZenonT(60)
  <2>6. /\ \A d \in Clients \ {c} : client'[d] = client[d] /\ unread'[d] = unread[d]
        /\ \A t \in Fds \ {s} : users'[t] = users[t] /\ fd'[t] = fd[t]
        /\ users'[s].open
    BY <1>1, <1>4, <1>5, ZenonT(60) DEF Becomes
  <2>7. \A t \in Fds \ {s} : users[t].open /\ fd[t] = c => Untouched(c)
    BY <2>3, ZenonT(60)
  <2>8. QED  BY <1>3, <2>3, <2>5, <2>6, <2>7, BuffersStep, ZenonT(60)
<1>15. QED  BY <1>8, <1>9, <1>13, <1>14, ZenonT(60) DEF Core

LEMMA EmptyHolds ==
    ASSUME ServerAssumption, NEW u, u.buf = <<>>, u.out = 0, NEW c, NEW n \in Nat, NEW m \in Int,
           Upto(n) <= m
    PROVE  Holds(u, c, n, m)
<1>1. Len(u.buf) = 0 /\ u.out # 1 /\ n + u.out = n /\ Upto(n) \in Nat
  BY UptoNext
<1>2. Upto(n + u.out) + Len(u.buf) <= m
  BY <1>1
<1>3. QED  BY <1>1, <1>2 DEF Holds

\* close_conn closes an open connection, and does nothing else.
LEMMA CoreClose ==
    ASSUME ServerAssumption, Core, NEW s \in Fds, close_conn(s), UNCHANGED <<unread, main, pending>>
    PROVE  Core'
<1>1. CASE ~users[s].open
  <2>1. UNCHANGED <<client, fd, users>>
    BY <1>1, ZenonT(60) DEF close_conn
  <2>2. QED  BY <2>1, CoreStays, ZenonT(60)
<1>2. CASE users[s].open
  <2>1. PICK c \in Clients : c = fd[s]
    BY <1>2, ZenonT(60) DEF Core, Connected
  <2> DEFINE k == [client[c] EXCEPT !.pc = "closed"]
             u == [Closed(users[s].by) EXCEPT !.fresh = users[s].fresh]
  <2>2. /\ client' = [client EXCEPT ![c] = k] /\ users' = [users EXCEPT ![s] = u]
        /\ fd' = [fd EXCEPT ![s] = None]
    BY <1>2, <2>1, ZenonT(60) DEF close_conn
  <2>3. client[c] \in ClientStates /\ users[s] \in Connections /\ CoreTypes
    BY GotType, UserType, ZenonT(60) DEF Core
  <2>4. k \in ClientStates /\ k.sent = client[c].sent /\ k.got = client[c].got
    BY <2>3, ZenonT(60) DEF ClientStates
  <2>5. u \in Connections /\ ~u.open /\ u.buf = <<>> /\ u.out = 0
    <3>1. users[s].by \in Reactors \cup {None} /\ users[s].fresh \in BOOLEAN
      BY <2>3, ZenonT(60) DEF Connections
    <3>2. QED  BY <3>1, ClosedType, ZenonT(60)
  <2> HIDE DEF k, u
  <2>6. unread' = [unread EXCEPT ![c] = unread[c]] /\ unread[c] \in Nat
    BY <2>3, SameUnread, ZenonT(60)
  <2>7. ClientBecomes(c, k, unread[c]) /\ Becomes(s, u)
    BY <2>2, <2>3, <2>4, <2>5, <2>6, ClientStep, UsersStep, ZenonT(60)
  <2>8. Answered(c)'
    <3>1. Answered(c)
      BY ZenonT(60) DEF Core, Buffers
    <3>2. QED  BY <2>4, <2>7, <3>1, ZenonT(60) DEF Answered, Got, Read, ClientBecomes
  <2>9. QED  BY <1>2, <2>1, <2>2, <2>4, <2>5, <2>6, <2>7, <2>8, CoreCloses, ZenonT(60)
<1>3. QED  BY <1>1, <1>2, ZenonT(60)

LEMMA TripleType ==
    ASSUME NEW c \in Clients, NEW a \in Nat, NEW b \in Nat
    PROVE  <<c, a, b>> \in Segments
  BY DEF Segments

LEMMA SegmentType ==
    ASSUME ServerAssumption, NEW c \in Clients, NEW n \in Nat, n > 0
    PROVE  Segment(c, n) \in Segments
<1> DEFINE k == (n - 1) \div Parts
           j == (n - 1) % Parts
<1>1. k \in Nat /\ j \in Nat
  <2>1. n - 1 \in Nat /\ Parts \in Nat /\ Parts > 0
    BY PartsType
  <2>2. k \in Int /\ j \in 0..(Parts - 1) /\ n - 1 = Parts * k + j
    BY <2>1
  <2>3. k >= 0
    BY <2>1
  <2>4. QED  BY <2>1, <2>2, <2>3
<1> HIDE DEF k, j
<1>2. Segment(c, n) = <<c, k + 1, j + 1>>
  BY <1>1, SegmentParts, ZenonT(60) DEF k, j
<1>3. k + 1 \in Nat /\ j + 1 \in Nat
  BY <1>1
<1>4. QED  BY <1>2, <1>3, TripleType, ZenonT(60)

\* A buffer b with the segments up to f of a client, and the n segments that follow.
Followed(b, c, f, n) == b \o [i \in 1..n |-> Segment(c, f + i)]
UpToHere(z, c, m) == \A i \in 1..Len(z) : z[i] = Segment(c, m - Len(z) + i)

LEMMA ReadMore ==
    ASSUME ServerAssumption, NEW c \in Clients, NEW f \in Nat, NEW n \in Nat,
           NEW b \in Seq(Segments), UpToHere(b, c, f)
    PROVE  /\ Followed(b, c, f, n) \in Seq(Segments) /\ Len(Followed(b, c, f, n)) = Len(b) + n
           /\ UpToHere(Followed(b, c, f, n), c, f + n)
<1> DEFINE more == [i \in 1..n |-> Segment(c, f + i)]
           z == b \o more
<1>1. \A i \in 1..n : Segment(c, f + i) \in Segments
  <2>1. ASSUME NEW i \in 1..n PROVE Segment(c, f + i) \in Segments
    <3>1. f + i \in Nat /\ f + i > 0
      OBVIOUS
    <3>2. QED  BY <3>1, SegmentType, ZenonT(60)
  <2>2. QED  BY <2>1, ZenonT(60)
<1>2. more \in Seq(Segments) /\ Len(more) = n /\ \A i \in 1..n : more[i] = Segment(c, f + i)
  BY <1>1
<1> HIDE DEF more
<1>3. /\ z \in Seq(Segments) /\ Len(z) = Len(b) + n
      /\ \A i \in 1..Len(b) : z[i] = b[i]
      /\ \A i \in (Len(b) + 1)..(Len(b) + n) : z[i] = more[i - Len(b)]
  BY <1>2
<1> HIDE DEF z
<1>4. ASSUME NEW i \in 1..Len(z) PROVE z[i] = Segment(c, (f + n) - Len(z) + i)
  <2>1. (f + n) - Len(z) + i = f - Len(b) + i
    BY <1>3
  <2>2. CASE i \in 1..Len(b)
    BY <1>3, <2>1, <2>2, ZenonT(60) DEF UpToHere
  <2>3. CASE i \notin 1..Len(b)
    <3>1. i \in (Len(b) + 1)..(Len(b) + n) /\ i - Len(b) \in 1..n
      BY <1>3, <2>3
    <3>2. z[i] = Segment(c, f + (i - Len(b)))
      BY <1>2, <1>3, <3>1, ZenonT(60)
    <3>3. f + (i - Len(b)) = f - Len(b) + i
      BY <3>1
    <3>4. QED  BY <2>1, <3>2, <3>3, ZenonT(60)
  <2>4. QED  BY <2>2, <2>3, ZenonT(60)
<1>5. z = Followed(b, c, f, n)
  BY DEF z, more, Followed
<1>6. QED  BY <1>3, <1>4, <1>5, ZenonT(60) DEF UpToHere

LEMMA HoldsIf ==
    ASSUME NEW u, NEW c, NEW n, NEW m, Upto(n + u.out) + Len(u.buf) <= m,
           \A i \in 1..Len(u.buf) : u.buf[i] = Segment(c, m - Len(u.buf) + i),
           u.out = 1 => u.answer = Whole(c, n + 1)
    PROVE  Holds(u, c, n, m)
  BY ZenonT(60) DEF Holds

\* The reactor reads all that is there.
LEMMA CoreRead ==
    ASSUME ServerAssumption, Core, NEW s \in Fds, users[s].open,
           users' = [users EXCEPT ![s] = ReadAll(s)], unread' = [unread EXCEPT ![fd[s]] = 0],
           UNCHANGED <<client, fd, main, pending>>
    PROVE  Core'
<1>1. PICK c \in Clients : c = fd[s]
  BY ZenonT(60) DEF Core, Connected
<1> DEFINE b == users[s].buf
           f == Read(c)
           n == unread[c]
           z == Followed(b, c, f, n)
           u == [users[s] EXCEPT !.buf = z, !.fresh = n > 0]
<1>2. ReadAll(s) = u
  BY <1>1, ZenonT(60) DEF ReadAll, Read, Followed
<1>3. /\ client[c] \in ClientStates /\ client[c].sent \in Nat /\ n \in Nat /\ Got(c) \in Nat
      /\ f \in Int /\ Upto(Got(c)) \in Nat /\ users[s] \in Connections /\ b \in Seq(Segments)
      /\ users[s].out \in {0, 1} /\ CoreTypes /\ Len(b) \in Nat
  BY GotType, UserType, ZenonT(60) DEF Core
<1>4. Answered(c) /\ Good(users[s], c) /\ users[s].by \in Reactors
  BY <1>1, ZenonT(60) DEF Core, Buffers, CoreTypes
<1>5. f \in Nat
  <2>1. Upto(Got(c)) <= f
    BY <1>4, ZenonT(60) DEF Answered
  <2>2. QED  BY <1>3, <2>1
<1>6. Holds(users[s], c, Got(c), f)
  BY <1>4, ZenonT(60) DEF Good
<1>7. /\ \A i \in 1..Len(b) : b[i] = Segment(c, f - Len(b) + i)
      /\ Upto(Got(c) + users[s].out) + Len(b) <= f
      /\ users[s].out = 1 => users[s].answer = Whole(c, Got(c) + 1)
  BY <1>6, ZenonT(60) DEF Holds
<1> HIDE DEF f, n
<1>8. /\ z \in Seq(Segments) /\ Len(z) = Len(b) + n
      /\ \A i \in 1..Len(z) : z[i] = Segment(c, (f + n) - Len(z) + i)
  <2> HIDE DEF b
  <2>1. UpToHere(b, c, f)
    BY <1>7, ZenonT(60) DEF UpToHere
  <2>2. QED  BY <1>3, <1>5, <2>1, ReadMore, ZenonT(60) DEF UpToHere
<1> HIDE DEF z
<1>9. /\ u \in Connections /\ u.open /\ u.by \in Reactors /\ u.buf = z
      /\ u.out = users[s].out /\ u.answer = users[s].answer
  <2>1. (n > 0) \in BOOLEAN
    BY <1>3
  <2>2. QED  BY <1>3, <1>4, <1>8, <2>1, ZenonT(60) DEF Connections
<1>10. users' = [users EXCEPT ![s] = u] /\ unread' = [unread EXCEPT ![c] = 0]
  BY <1>1, <1>2, ZenonT(60)
<1> HIDE DEF u
<1>11. client' = [client EXCEPT ![c] = client[c]]
  BY <1>3, ZenonT(60) DEF CoreTypes
<1>12. ClientBecomes(c, client[c], 0) /\ Becomes(s, u)
  <2>1. 0 \in Nat
    OBVIOUS
  <2>2. QED  BY <1>3, <1>9, <1>10, <1>11, <2>1, ClientStep, UsersStep, ZenonT(60)
<1>13. Got(c)' = Got(c) /\ Read(c)' = f + n /\ client'[c] = client[c]
  <2>1. client'[c] = client[c] /\ unread'[c] = 0
    BY <1>12, ZenonT(60) DEF ClientBecomes
  <2>2. f + n = client[c].sent
    BY <1>3 DEF f, n, Read
  <2>3. Read(c)' = client[c].sent
    BY <1>3, <2>1 DEF Read
  <2>4. QED  BY <2>1, <2>2, <2>3, ZenonT(60) DEF Got
<1>14. Upto(Got(c) + users[s].out) \in Nat
  <2>1. Got(c) + users[s].out \in Nat
    BY <1>3
  <2>2. QED  BY <2>1, UptoNext, ZenonT(60)
<1>15. Holds(u, c, Got(c), f + n)
  <2>1. Upto(Got(c) + users[s].out) + Len(z) <= f + n
    BY <1>3, <1>5, <1>7, <1>8, <1>14
  <2>2. Upto(Got(c) + u.out) + Len(u.buf) <= f + n
    BY <1>9, <2>1, ZenonT(60)
  <2>3. \A i \in 1..Len(u.buf) : u.buf[i] = Segment(c, (f + n) - Len(u.buf) + i)
    BY <1>8, <1>9, ZenonT(60)
  <2>4. u.out = 1 => u.answer = Whole(c, Got(c) + 1)
    BY <1>7, <1>9, ZenonT(60)
  <2>5. QED  BY <2>2, <2>3, <2>4, HoldsIf, ZenonT(60)
<1>16. Answered(c)'
  <2>1. /\ Upto(Got(c)) <= f /\ client[c].sent <= Upto(Got(c)) + Parts
        /\ \A i \in 1..Got(c) : client[c].got[i] = Whole(c, i)
    BY <1>4, ZenonT(60) DEF Answered, f
  <2>2. Upto(Got(c)) <= f + n
    BY <1>3, <1>5, <2>1
  <2>3. Upto(Got(c)') <= Read(c)' /\ Upto(Got(c))' = Upto(Got(c)')
    BY <1>13, <2>2, ZenonT(60) DEF Upto
  <2>4. QED  BY <1>13, <2>1, <2>3, ZenonT(60) DEF Answered
<1>17. QED
  <2>1. Holds(u, c, Got(c)', Read(c)')
    BY <1>13, <1>15, ZenonT(60)
  <2>2. 0 \in Nat
    OBVIOUS
  <2>3. QED  BY <1>1, <1>3, <1>9, <1>12, <1>16, <2>1, <2>2, CoreSlot, ZenonT(60)

\* The pool answers the request in the buffer, which is the one after the last answer.
LEMMA CoreAnswers ==
    ASSUME ServerAssumption, Core, NEW s \in Fds, users[s].out = 0, Complete(users[s]),
           users' = [users EXCEPT ![s] = [users[s] EXCEPT !.fresh = FALSE, !.buf = <<>>, !.out = 1,
                                                          !.answer = users[s].buf]],
           UNCHANGED <<client, unread, fd, main, pending>>
    PROVE  Core'
<1> DEFINE b == users[s].buf
           u == [users[s] EXCEPT !.fresh = FALSE, !.buf = <<>>, !.out = 1, !.answer = b]
<1>1. users[s] \in Connections /\ b \in Seq(Segments) /\ Len(b) \in Nat /\ CoreTypes
  BY UserType, ZenonT(60) DEF Core
<1>2. Len(b) >= Parts /\ Parts \in Nat /\ Parts > 0
  BY PartsType, ZenonT(60) DEF Complete
<1>3. users[s].open
  <2>1. b # <<>>
    BY <1>1, <1>2
  <2>2. QED  BY <2>1, ZenonT(60) DEF Core, Buffers
<1>4. PICK c \in Clients : c = fd[s]
  BY <1>3, ZenonT(60) DEF Core, Connected
<1> DEFINE g == Got(c)
           m == Read(c)
<1>5. /\ client[c] \in ClientStates /\ client[c].sent \in Nat /\ unread[c] \in Nat /\ g \in Nat
      /\ m \in Int /\ Upto(g) \in Nat
  BY GotType, ZenonT(60)
<1>6. Answered(c) /\ Holds(users[s], c, g, m) /\ users[s].by \in Reactors
  BY <1>3, <1>4, ZenonT(60) DEF Core, Buffers, Good, CoreTypes
<1>7. Len(b) = Parts /\ m = Upto(g) + Parts
  <2>1. g + users[s].out = g
    BY <1>5
  <2>2. Upto(g) + Len(b) <= m
    BY <1>6, <2>1, ZenonT(60) DEF Holds
  <2>3. client[c].sent <= Upto(g) + Parts
    BY <1>6, ZenonT(60) DEF Answered
  <2>4. m <= client[c].sent
    BY <1>5 DEF Read
  <2>5. QED  BY <1>1, <1>2, <1>5, <2>2, <2>3, <2>4
<1>8. ASSUME NEW i \in 1..Parts PROVE b[i] = <<c, g + 1, i>>
  <2>1. b[i] = Segment(c, m - Len(b) + i)
    BY <1>6, <1>7, ZenonT(60) DEF Holds
  <2>2. m - Len(b) + i = Upto(g) + i
    BY <1>1, <1>5, <1>7
  <2>3. QED  BY <1>5, <2>1, <2>2, SegmentIs, ZenonT(60)
<1>9. b = Whole(c, g + 1)
  <2>1. b = [i \in 1..Parts |-> b[i]]
    BY <1>1, <1>7
  <2>2. QED  BY <1>8, <2>1, ZenonT(60) DEF Whole
<1>10. users' = [users EXCEPT ![s] = u]
  OBVIOUS
<1>11. /\ u \in Connections /\ u.open /\ u.by \in Reactors /\ u.buf = <<>>
       /\ u.out = 1 /\ u.answer = b
  <2>1. <<>> \in Seq(Segments)
    OBVIOUS
  <2>2. QED  BY <1>1, <1>3, <1>6, <2>1, ZenonT(60) DEF Connections
<1> HIDE DEF b, u, g, m
<1>12. client' = [client EXCEPT ![c] = client[c]]
  BY <1>1, ZenonT(60) DEF CoreTypes
<1>13. unread' = [unread EXCEPT ![c] = unread[c]]
  BY <1>1, ZenonT(60) DEF CoreTypes
<1>14. ClientBecomes(c, client[c], unread[c]) /\ Becomes(s, u)
  BY <1>1, <1>5, <1>10, <1>11, <1>12, <1>13, ClientStep, UsersStep, ZenonT(60)
<1>15. Answered(c)' /\ Got(c)' = g /\ Read(c)' = m
  BY <1>6, ZenonT(60) DEF Answered, Got, Read, g, m
<1>16. Holds(u, c, g, m)
  <2>1. Upto(g + u.out) + Len(u.buf) <= m /\ Len(u.buf) = 0
    BY <1>2, <1>5, <1>7, <1>11, UptoNext
  <2>2. u.answer = Whole(c, g + 1)
    BY <1>9, <1>11, ZenonT(60)
  <2>3. \A i \in 1..Len(u.buf) : u.buf[i] = Segment(c, m - Len(u.buf) + i)
    BY <2>1
  <2>4. QED  BY <2>1, <2>2, <2>3, ZenonT(60) DEF Holds
<1>17. QED
  <2>1. Holds(u, c, Got(c)', Read(c)')
    BY <1>15, <1>16, ZenonT(60)
  <2>2. QED  BY <1>3, <1>4, <1>5, <1>11, <1>14, <1>15, <2>1, CoreSlot, ZenonT(60)

\* The client c gets the answer that the connection at s holds.
LEMMA Delivered ==
    ASSUME ServerAssumption, Core, NEW s \in Fds, users[s].open, users[s].out = 1,
           NEW c \in Clients, c = fd[s], NEW k \in ClientStates,
           k.sent = client[c].sent, k.got = Append(client[c].got, users[s].answer),
           ClientBecomes(c, k, unread[c])
    PROVE  /\ Answered(c)' /\ Got(c)' = Got(c) + 1 /\ Read(c)' = Read(c)
           /\ Upto(Got(c) + 1) <= Read(c)
<1> DEFINE g == Got(c)
           m == Read(c)
           a == users[s].answer
<1>1. /\ client[c].got \in Seq(Seq(Segments)) /\ g \in Nat /\ m \in Int /\ Upto(g) \in Nat
      /\ Parts \in Nat /\ client[c].sent \in Nat
  BY GotType, ZenonT(60)
<1>2. users[s] \in Connections /\ Len(users[s].buf) \in Nat
  BY UserType, ZenonT(60)
<1>3. a \in Seq(Segments)
  BY <1>2, ZenonT(60) DEF Connections
<1>4. Holds(users[s], c, g, m) /\ Answered(c)
  BY ZenonT(60) DEF Core, Buffers, Good
<1>5. a = Whole(c, g + 1) /\ Upto(g + 1) + Len(users[s].buf) <= m
  BY <1>4, ZenonT(60) DEF Holds
<1>6. /\ client[c].sent <= Upto(g) + Parts
      /\ \A i \in 1..g : client[c].got[i] = Whole(c, i)
  BY <1>4, ZenonT(60) DEF Answered
<1>7. client'[c] = k /\ unread'[c] = unread[c]
  BY ZenonT(60) DEF ClientBecomes
<1>8. /\ Len(k.got) = g + 1 /\ k.got[g + 1] = a
      /\ \A i \in 1..g : k.got[i] = client[c].got[i]
  BY <1>1, <1>3 DEF Got
<1> HIDE DEF g, m, a
<1>9. Got(c)' = g + 1 /\ Read(c)' = m
  BY <1>7, <1>8, ZenonT(60) DEF Got, Read, m
<1>10. Upto(g + 1) <= m /\ k.sent <= Upto(g + 1) + Parts
  <2>1. Upto(g + 1) = Upto(g) + Parts
    BY <1>1, UptoNext, ZenonT(60)
  <2>2. QED  BY <1>1, <1>2, <1>5, <1>6, <2>1
<1>11. \A i \in 1..(g + 1) : k.got[i] = Whole(c, i)
  <2>1. ASSUME NEW i \in 1..(g + 1) PROVE k.got[i] = Whole(c, i)
    <3>1. i \in 1..g \/ i = g + 1
      BY <1>1
    <3>2. QED  BY <1>5, <1>6, <1>8, <3>1, ZenonT(60)
  <2>2. QED  BY <2>1, ZenonT(60)
<1>12. Answered(c)'
  <2>1. Upto(Got(c))' = Upto(g + 1)
    BY <1>9, ZenonT(60) DEF Upto
  <2>2. QED  BY <1>7, <1>9, <1>10, <1>11, <2>1, ZenonT(60) DEF Answered
<1>13. QED  BY <1>9, <1>10, <1>12, ZenonT(60) DEF g, m

\* The answer is written, and the connection is kept for another request.
LEMMA CoreWrites ==
    ASSUME ServerAssumption, Core, NEW s \in Fds, users[s].open,
           client' = IF users[s].out > 0
                     THEN [client EXCEPT ![fd[s]].got = Append(@, users[s].answer)] ELSE client,
           users' = [users EXCEPT ![s] = init(users[s].by, s)],
           UNCHANGED <<unread, fd, main, pending>>
    PROVE  Core'
<1>1. PICK c \in Clients : c = fd[s]
  BY ZenonT(60) DEF Core, Connected
<1> DEFINE u == init(users[s].by, s)
           k == IF users[s].out > 0
                THEN [client[c] EXCEPT !.got = Append(@, users[s].answer)] ELSE client[c]
<1>2. /\ client[c] \in ClientStates /\ users[s] \in Connections /\ CoreTypes
      /\ users[s].out \in {0, 1} /\ users[s].by \in Reactors /\ Got(c) \in Nat /\ Read(c) \in Int
      /\ client[c].got \in Seq(Seq(Segments))
  BY GotType, UserType, ZenonT(60) DEF Core, CoreTypes
<1>3. u \in Connections /\ u.open /\ u.by \in Reactors /\ u.buf = <<>> /\ u.out = 0
  BY <1>2, InitType, ZenonT(60)
<1>4. /\ k \in ClientStates /\ k.sent = client[c].sent /\ k.pc = client[c].pc
      /\ users[s].out = 1 => k.got = Append(client[c].got, users[s].answer)
      /\ users[s].out = 0 => k = client[c]
  <2>1. Append(client[c].got, users[s].answer) \in Seq(Seq(Segments))
    <3>1. users[s].answer \in Seq(Segments)
      BY <1>2, ZenonT(60) DEF Connections
    <3>2. QED  BY <1>2, <3>1
  <2>2. users[s].out = 1 => users[s].out > 0
    BY <1>2
  <2>3. users[s].out = 0 => ~(users[s].out > 0)
    BY <1>2
  <2>4. [client[c] EXCEPT !.got = Append(@, users[s].answer)] \in ClientStates
    BY <1>2, <2>1, ZenonT(60) DEF ClientStates
  <2>5. /\ [client[c] EXCEPT !.got = Append(@, users[s].answer)].sent = client[c].sent
        /\ [client[c] EXCEPT !.got = Append(@, users[s].answer)].pc = client[c].pc
        /\ [client[c] EXCEPT !.got = Append(@, users[s].answer)].got
             = Append(client[c].got, users[s].answer)
    BY <1>2, ZenonT(60) DEF ClientStates
  <2>6. QED  BY <1>2, <2>2, <2>3, <2>4, <2>5, ZenonT(60)
<1>5. client' = [client EXCEPT ![c] = k] /\ users' = [users EXCEPT ![s] = u]
  <2>1. CASE users[s].out > 0
    BY <1>1, <2>1, ZenonT(60)
  <2>2. CASE ~(users[s].out > 0)
    BY <1>1, <1>2, <2>2, ZenonT(60) DEF CoreTypes
  <2>3. QED  BY <2>1, <2>2, ZenonT(60)
<1> HIDE DEF u, k
<1>6. unread' = [unread EXCEPT ![c] = unread[c]] /\ unread[c] \in Nat
  BY <1>2, SameUnread, ZenonT(60)
<1>7. ClientBecomes(c, k, unread[c]) /\ Becomes(s, u)
  BY <1>2, <1>3, <1>4, <1>5, <1>6, ClientStep, UsersStep, ZenonT(60)
<1>8. Answered(c)' /\ Got(c)' \in Nat /\ Read(c)' \in Int /\ Upto(Got(c)') <= Read(c)'
  <2>1. CASE users[s].out = 1
    <3>1. /\ Answered(c)' /\ Got(c)' = Got(c) + 1 /\ Read(c)' = Read(c)
          /\ Upto(Got(c) + 1) <= Read(c)
      BY <1>1, <1>4, <1>7, <2>1, Delivered, ZenonT(60)
    <3>2. Got(c) + 1 \in Nat
      BY <1>2
    <3>3. QED  BY <1>2, <3>1, <3>2, ZenonT(60)
  <2>2. CASE users[s].out = 0
    <3>1. client'[c] = client[c] /\ unread'[c] = unread[c] /\ Answered(c)
      BY <1>4, <1>7, <2>2, ZenonT(60) DEF ClientBecomes, Core, Buffers
    <3>2. Got(c)' = Got(c) /\ Read(c)' = Read(c) /\ Answered(c)'
      BY <3>1, ZenonT(60) DEF Got, Read, Answered
    <3>3. QED  BY <1>2, <3>1, <3>2, ZenonT(60) DEF Answered
  <2>3. QED  BY <1>2, <2>1, <2>2, ZenonT(60)
<1>9. Holds(u, c, Got(c)', Read(c)')
  BY <1>3, <1>8, EmptyHolds, ZenonT(60)
<1>10. QED  BY <1>1, <1>3, <1>4, <1>6, <1>7, <1>8, <1>9, CoreSlot, ZenonT(60)

\* The last answer is written, and the connection is closed.
LEMMA CoreWritesLast ==
    ASSUME ServerAssumption, Core, NEW s \in Fds, users[s].open, users[s].out > 0,
           client' = [[client EXCEPT ![fd[s]].got = Append(@, users[s].answer)]
                        EXCEPT ![fd[s]].pc = "closed"],
           users' = [users EXCEPT ![s] = Closed(users[s].by)],
           fd' = [fd EXCEPT ![s] = None], UNCHANGED <<unread, main, pending>>
    PROVE  Core'
<1>1. PICK c \in Clients : c = fd[s]
  BY ZenonT(60) DEF Core, Connected
<1> DEFINE u == Closed(users[s].by)
           k == [client[c] EXCEPT !.got = Append(@, users[s].answer), !.pc = "closed"]
<1>2. /\ client[c] \in ClientStates /\ users[s] \in Connections /\ CoreTypes
      /\ users[s].out \in {0, 1} /\ client[c].got \in Seq(Seq(Segments))
  BY GotType, UserType, ZenonT(60) DEF Core, CoreTypes
<1>3. users[s].out = 1
  BY <1>2
<1>4. u \in Connections /\ ~u.open /\ u.buf = <<>> /\ u.out = 0
  <2>1. users[s].by \in Reactors \cup {None} /\ <<>> \in Seq(Segments)
    <3>1. users[s].by \in Reactors \cup {None}
      BY <1>2, ZenonT(60) DEF Connections
    <3>2. <<>> \in Seq(Segments)
      OBVIOUS
    <3>3. QED  BY <3>1, <3>2, ZenonT(60)
  <2>2. QED  BY <2>1, ZenonT(60) DEF Closed, Connections
<1>5. /\ k \in ClientStates /\ k.sent = client[c].sent
      /\ k.got = Append(client[c].got, users[s].answer)
  <2>1. Append(client[c].got, users[s].answer) \in Seq(Seq(Segments))
    <3>1. users[s].answer \in Seq(Segments)
      BY <1>2, ZenonT(60) DEF Connections
    <3>2. QED  BY <1>2, <3>1
  <2>2. QED  BY <1>2, <2>1, ZenonT(60) DEF ClientStates
<1>6. client' = [client EXCEPT ![c] = k] /\ users' = [users EXCEPT ![s] = u]
  <2>1. client \in [Clients -> ClientStates]
    BY <1>2, ZenonT(60) DEF CoreTypes
  <2>2. QED  BY <1>1, <2>1, ZenonT(60)
<1> HIDE DEF u, k
<1>7. unread' = [unread EXCEPT ![c] = unread[c]] /\ unread[c] \in Nat
  BY <1>2, SameUnread, ZenonT(60)
<1>8. ClientBecomes(c, k, unread[c]) /\ Becomes(s, u)
  BY <1>2, <1>4, <1>5, <1>6, <1>7, ClientStep, UsersStep, ZenonT(60)
<1>9. Answered(c)'
  BY <1>1, <1>3, <1>5, <1>8, Delivered, ZenonT(60)
<1>10. QED  BY <1>1, <1>4, <1>5, <1>7, <1>8, <1>9, CoreCloses, ZenonT(60)

-----------------------------------------------------------------------------
(***************************************************************************)
(* Timers, tasks and reactors                                              *)
(***************************************************************************)

LEMMA TimerStep ==
    ASSUME Places, NEW r \in Reactors, NEW s \in Fds, NEW b \in BOOLEAN, Timer(r, s, b)
    PROVE  /\ heap' \in [Reactors -> SUBSET Fds]
           /\ \A q \in Reactors : \A t \in Fds \ {s} : t \in heap[q] => t \in heap'[q]
           /\ b => /\ s \in heap'[r]
                   /\ \A q \in Reactors : s \in heap[q] => s \in heap'[q]
<1>1. heap \in [Reactors -> SUBSET Fds] /\ heap' = [heap EXCEPT ![r] = IF b THEN @ \cup {s} ELSE @ \ {s}]
  BY ZenonT(60) DEF Places, Timer
<1>2. CASE b
  <2>1. heap' = [heap EXCEPT ![r] = heap[r] \cup {s}]
    BY <1>1, <1>2, ZenonT(60)
  <2>2. QED  BY <1>1, <1>2, <2>1
<1>3. CASE ~b
  <2>1. heap' = [heap EXCEPT ![r] = heap[r] \ {s}]
    BY <1>1, <1>3, ZenonT(60)
  <2>2. QED  BY <1>1, <1>3, <2>1
<1>4. QED  BY <1>2, <1>3, ZenonT(60)

LEMMA ReactorStep ==
    ASSUME Places, NEW r \in Reactors, NEW x, Reacting(x), reactor' = [reactor EXCEPT ![r] = x]
    PROVE  DOMAIN reactor' = Reactors /\ \A q \in Reactors : Reacting(reactor'[q])
  BY ZenonT(60) DEF Places

LEMMA AfterStep ==
    ASSUME Places, NEW r \in Reactors, NEW s, reactor' = After(r, s)
    PROVE  DOMAIN reactor' = Reactors /\ \A q \in Reactors : Reacting(reactor'[q])
<1> DEFINE rest == {e \in reactor[r].batch : e.fd # s}
           x == [pc |-> IF rest = {} THEN "wait" ELSE "event", batch |-> rest, fd |-> 0]
<1>1. reactor' = [reactor EXCEPT ![r] = x]
  BY ZenonT(60) DEF After
<1>2. Reacting(x)
  <2>1. x.pc # "append" /\ DOMAIN x = {"pc", "batch", "fd"}
    BY ZenonT(60)
  <2>2. QED  BY <2>1, ZenonT(60) DEF Reacting
<1> HIDE DEF x
<1>3. QED  BY <1>1, <1>2, ReactorStep, ZenonT(60)

\* The step concerns the connection at s.
LEMMA CoversStep ==
    ASSUME Inv, NEW s \in Fds,
           \A t \in Fds \ {s} : users'[t] = users[t],
           \A q \in Reactors : \A t \in Fds \ {s} : t \in heap[q] => t \in heap'[q],
           users'[s].open => s \in heap'[users'[s].by]
    PROVE  TimerCovers'
<1>1. ASSUME NEW t \in Fds, users'[t].open PROVE t \in heap'[users'[t].by]
  <2>1. CASE t = s
    BY <1>1, <2>1, ZenonT(60)
  <2>2. CASE t # s
    <3>1. users'[t] = users[t] /\ users[t].by \in Reactors /\ t \in heap[users[t].by]
      BY <1>1, <2>2, ZenonT(60) DEF Inv, Core, CoreTypes, TimerCovers
    <3>2. QED  BY <2>2, <3>1, ZenonT(60)
  <2>3. QED  BY <2>1, <2>2, ZenonT(60)
<1>2. QED  BY <1>1, ZenonT(60) DEF TimerCovers

LEMMA Closes ==
    ASSUME ServerAssumption, Core, NEW s \in Fds, close_conn(s)
    PROVE  ~users'[s].open /\ \A t \in Fds \ {s} : users'[t] = users[t]
<1>1. users \in [Fds -> Connections]
  BY ZenonT(60) DEF Core, CoreTypes
<1>2. CASE users[s].open
  <2>1. users' = [users EXCEPT ![s] = [Closed(users[s].by) EXCEPT !.fresh = users[s].fresh]]
    BY <1>2, ZenonT(60) DEF close_conn
  <2>2. ~[Closed(users[s].by) EXCEPT !.fresh = users[s].fresh].open
    BY ZenonT(60) DEF Closed
  <2>3. QED  BY <1>1, <2>1, <2>2, ZenonT(60)
<1>3. CASE ~users[s].open
  BY <1>3, ZenonT(60) DEF close_conn
<1>4. QED  BY <1>2, <1>3, ZenonT(60)

\* A reactor closes the connection at s, and drops the timer.
LEMMA CloseAndDrop ==
    ASSUME Inv, NEW r \in Reactors, NEW s \in Fds, close_conn(s), Timer(r, s, FALSE),
           UNCHANGED <<unread, main, pending>>
    PROVE  Core' /\ TimerCovers' /\ heap' \in [Reactors -> SUBSET Fds]
<1>1. Core' /\ ~users'[s].open /\ \A t \in Fds \ {s} : users'[t] = users[t]
  BY CoreClose, Closes, ZenonT(60) DEF Inv
<1>2. /\ heap' \in [Reactors -> SUBSET Fds]
      /\ \A q \in Reactors : \A t \in Fds \ {s} : t \in heap[q] => t \in heap'[q]
  <2>1. FALSE \in BOOLEAN
    OBVIOUS
  <2>2. QED  BY <2>1, TimerStep, ZenonT(60) DEF Inv
<1>3. QED  BY <1>1, <1>2, CoversStep, ZenonT(60)

\* The timer of a connection that is not open is dropped.
LEMMA DropTimer ==
    ASSUME Inv, NEW r \in Reactors, NEW s \in Fds, ~users[s].open, Timer(r, s, FALSE), UNCHANGED users
    PROVE  TimerCovers' /\ heap' \in [Reactors -> SUBSET Fds]
<1>1. /\ heap' \in [Reactors -> SUBSET Fds]
      /\ \A q \in Reactors : \A t \in Fds \ {s} : t \in heap[q] => t \in heap'[q]
  <2>1. FALSE \in BOOLEAN
    OBVIOUS
  <2>2. QED  BY <2>1, TimerStep, ZenonT(60) DEF Inv
<1>2. QED  BY <1>1, CoversStep, ZenonT(60)

\* The timer of a connection is set again.
LEMMA SetTimer ==
    ASSUME Inv, NEW r \in Reactors, NEW s \in Fds, users[s].open, Timer(r, s, TRUE),
           users'[s].by = users[s].by, \A t \in Fds \ {s} : users'[t] = users[t]
    PROVE  TimerCovers' /\ heap' \in [Reactors -> SUBSET Fds]
<1>1. /\ heap' \in [Reactors -> SUBSET Fds]
      /\ \A q \in Reactors : \A t \in Fds \ {s} : t \in heap[q] => t \in heap'[q]
      /\ \A q \in Reactors : s \in heap[q] => s \in heap'[q]
  <2>1. TRUE \in BOOLEAN
    OBVIOUS
  <2>2. QED  BY <2>1, TimerStep, ZenonT(60) DEF Inv
<1>2. users[s].by \in Reactors /\ s \in heap[users[s].by]
  BY ZenonT(60) DEF Inv, Core, CoreTypes, TimerCovers
<1>3. s \in heap'[users'[s].by]
  BY <1>1, <1>2, ZenonT(60)
<1>4. QED  BY <1>1, <1>3, CoversStep, ZenonT(60)

-----------------------------------------------------------------------------
(***************************************************************************)
(* Every action keeps the invariant                                        *)
(***************************************************************************)

LEMMA InvParts == Inv => ServerAssumption /\ Core /\ Places /\ TimerCovers
  BY ZenonT(60) DEF Inv

\* Clients and the main thread.
LEMMA ClientInv ==
    ASSUME Inv, NEW c \in Clients, Connect(c) \/ Send(c) \/ HangUp(c) \/ Accept(c) \/ Refuse(c)
    PROVE  Inv'
<1>1. UNCHANGED <<users, heap, tasks, worker, reactor>>
  BY ZenonT(60) DEF Connect, Send, HangUp, Accept, Refuse, handoff, pool
<1>2. Places' /\ TimerCovers'
  BY <1>1, InvParts, ZenonT(60) DEF Places, TimerCovers
<1>3. Core'
  BY InvParts, ClientMoves, ClientSends, CoreAccept, ZenonT(60)
<1>4. QED  BY <1>2, <1>3, InvParts, ZenonT(60) DEF Inv, ServerAssumption

LEMMA MainInv ==
    ASSUME Inv, PushPending \/ NotifyReactor
    PROVE  Inv'
<1>1. UNCHANGED <<users, heap, tasks, worker, reactor>>
  BY ZenonT(60) DEF PushPending, NotifyReactor, pool
<1>2. Places' /\ TimerCovers'
  BY <1>1, InvParts, ZenonT(60) DEF Places, TimerCovers
<1>3. Core'
  BY InvParts, CorePush, CoreNotify, ZenonT(60)
<1>4. QED  BY <1>2, <1>3, InvParts, ZenonT(60) DEF Inv, ServerAssumption

\* A reactor fetches events or handles the notification.
LEMMA EventsInv ==
    ASSUME Inv, NEW r \in Reactors, epoll_wait(r) \/ handle_notify(r) \/ Drained(r)
    PROVE  Inv'
<1>1. UNCHANGED <<client, unread, fd, users, main, pending, heap, tasks, worker>>
  BY ZenonT(60) DEF epoll_wait, handle_notify, Drained, net, handoff, pool
<1>2. Core' /\ TimerCovers'
  BY <1>1, InvParts, CoreStays, ZenonT(60) DEF TimerCovers
<1>3. DOMAIN reactor[r] = {"pc", "batch", "fd"}
  BY InvParts, ZenonT(60) DEF Places, Reacting
<1>4. DOMAIN reactor' = Reactors /\ \A q \in Reactors : Reacting(reactor'[q])
  <2>1. CASE epoll_wait(r)
    <3>1. PICK b : reactor' = [reactor EXCEPT ![r] = [pc |-> "event", batch |-> b, fd |-> 0]]
      BY <2>1, ZenonT(60) DEF epoll_wait
    <3>2. Reacting([pc |-> "event", batch |-> b, fd |-> 0])
      BY ZenonT(60) DEF Reacting
    <3>3. QED  BY <3>1, <3>2, InvParts, ReactorStep, ZenonT(60)
  <2>2. CASE handle_notify(r) /\ reactor' = After(r, 0)
    BY <2>2, InvParts, AfterStep, ZenonT(60)
  <2>3. CASE reactor' = [reactor EXCEPT ![r].pc = "drain"]
    <3>1. Reacting([reactor[r] EXCEPT !.pc = "drain"])
      BY <1>3, ZenonT(60) DEF Reacting
    <3>2. reactor' = [reactor EXCEPT ![r] = [reactor[r] EXCEPT !.pc = "drain"]]
      BY <2>3, ZenonT(60)
    <3>3. QED  BY <3>1, <3>2, InvParts, ReactorStep, ZenonT(60)
  <2>4. CASE Drained(r)
    <3>1. Reacting([reactor[r] EXCEPT !.pc = "event"])
      BY <1>3, ZenonT(60) DEF Reacting
    <3>2. reactor' = [reactor EXCEPT ![r] = [reactor[r] EXCEPT !.pc = "event"]]
      BY <2>4, ZenonT(60) DEF Drained
    <3>3. QED  BY <3>1, <3>2, InvParts, ReactorStep, ZenonT(60)
  <2>5. handle_notify(r) => reactor' = After(r, 0) \/ reactor' = [reactor EXCEPT ![r].pc = "drain"]
    BY ZenonT(60) DEF handle_notify
  <2>6. QED  BY <2>1, <2>2, <2>3, <2>4, <2>5, ZenonT(60)
<1>5. Places'
  BY <1>1, <1>4, InvParts, ZenonT(60) DEF Places
<1>6. QED  BY <1>2, <1>5, InvParts, ZenonT(60) DEF Inv, ServerAssumption

LEMMA RegisterInv ==
    ASSUME Inv, NEW r \in Reactors, register_connection(r)
    PROVE  Inv'
<1>1. PICK s : s = Head(pending[r])
  OBVIOUS
<1>2. /\ pending[r] # <<>> /\ users' = [users EXCEPT ![s] = init(r, s)] /\ Timer(r, s, TRUE)
      /\ UNCHANGED <<tasks, worker, reactor>>
  BY <1>1, ZenonT(60) DEF register_connection, pool
<1>3. s \in Fds
  <2>1. pending \in [Reactors -> Seq(Fds)]
    BY InvParts, ZenonT(60) DEF Core, CoreTypes
  <2>2. QED  BY <1>1, <1>2, <2>1
<1>4. /\ heap' \in [Reactors -> SUBSET Fds] /\ s \in heap'[r]
      /\ \A q \in Reactors : \A t \in Fds \ {s} : t \in heap[q] => t \in heap'[q]
  <2>1. TRUE \in BOOLEAN
    OBVIOUS
  <2>2. QED  BY <1>2, <1>3, <2>1, InvParts, TimerStep, ZenonT(60)
<1>5. users'[s].by = r /\ \A t \in Fds \ {s} : users'[t] = users[t]
  <2>1. users \in [Fds -> Connections] /\ init(r, s).by = r
    BY InvParts, InitType, ZenonT(60) DEF Core, CoreTypes
  <2>2. QED  BY <1>2, <1>3, <2>1, ZenonT(60)
<1>6. TimerCovers'
  BY <1>3, <1>4, <1>5, CoversStep, ZenonT(60)
<1>7. Places'
  BY <1>2, <1>4, InvParts, ZenonT(60) DEF Places
<1>8. Core'
  BY InvParts, CoreRegister, ZenonT(60)
<1>9. QED  BY <1>6, <1>7, <1>8, InvParts, ZenonT(60) DEF Inv, ServerAssumption

LEMMA HupInv ==
    ASSUME Inv, NEW r \in Reactors, NEW s \in Fds, CloseOnHup(r, s) \/ scan_timeout(r, s)
    PROVE  Inv'
<1>1. /\ close_conn(s) /\ Timer(r, s, FALSE) /\ UNCHANGED <<unread, main, pending, tasks, worker>>
      /\ reactor' = After(r, s) \/ reactor' = reactor
  BY ZenonT(60) DEF CloseOnHup, scan_timeout, handoff, pool
<1>2. Core' /\ TimerCovers' /\ heap' \in [Reactors -> SUBSET Fds]
  BY <1>1, CloseAndDrop, ZenonT(60)
<1>3. DOMAIN reactor' = Reactors /\ \A q \in Reactors : Reacting(reactor'[q])
  <2>1. CASE reactor' = After(r, s)
    BY <2>1, InvParts, AfterStep, ZenonT(60)
  <2>2. CASE reactor' = reactor
    BY <2>2, InvParts, ZenonT(60) DEF Places
  <2>3. QED  BY <1>1, <2>1, <2>2, ZenonT(60)
<1>4. Places'
  BY <1>1, <1>2, <1>3, InvParts, ZenonT(60) DEF Places
<1>5. QED  BY <1>2, <1>4, InvParts, ZenonT(60) DEF Inv, ServerAssumption

LEMMA ReadInv ==
    ASSUME Inv, NEW r \in Reactors, NEW s \in Fds, dealwithread(r, s)
    PROVE  Inv'
<1>1. UNCHANGED <<client, fd, main, pending, tasks, worker>>
  BY ZenonT(60) DEF dealwithread, handoff, pool
<1>2. CASE /\ ActorModel = 1 \/ users[s].open
           /\ IF ActorModel = 1 THEN UNCHANGED <<unread, interest, users>>
              ELSE /\ users' = [users EXCEPT ![s] = ReadAll(s)]
                   /\ unread' = [unread EXCEPT ![fd[s]] = 0]
                   /\ interest' = modfd(interest, s, "in")
           /\ reactor' = [reactor EXCEPT ![r] = [pc |-> "append", batch |-> {e \in @.batch : e.fd # s}, fd |-> s]]
           /\ UNCHANGED heap
  <2> DEFINE x == [pc |-> "append", batch |-> {e \in reactor[r].batch : e.fd # s}, fd |-> s]
  <2>1. Reacting(x)
    BY ZenonT(60) DEF Reacting
  <2>2. reactor' = [reactor EXCEPT ![r] = x]
    BY <1>2, ZenonT(60)
  <2> HIDE DEF x
  <2>3. DOMAIN reactor' = Reactors /\ \A q \in Reactors : Reacting(reactor'[q])
    BY <2>1, <2>2, InvParts, ReactorStep, ZenonT(60)
  <2>4. Places'
    BY <1>1, <1>2, <2>3, InvParts, ZenonT(60) DEF Places
  <2>5. CASE ActorModel = 1
    <3>1. UNCHANGED <<unread, users>>
      BY <1>2, <2>5, ZenonT(60)
    <3>2. Core' /\ TimerCovers'
      BY <1>1, <1>2, <3>1, InvParts, CoreStays, ZenonT(60) DEF TimerCovers
    <3>3. QED  BY <2>4, <3>2, InvParts, ZenonT(60) DEF Inv, ServerAssumption
  <2>6. CASE ActorModel # 1
    <3>1. /\ users[s].open /\ users' = [users EXCEPT ![s] = ReadAll(s)]
          /\ unread' = [unread EXCEPT ![fd[s]] = 0]
      BY <1>2, <2>6, ZenonT(60)
    <3>2. Core'
      BY <1>1, <3>1, InvParts, CoreRead, ZenonT(60)
    <3>3. users'[s].by = users[s].by /\ \A t \in Fds \ {s} : users'[t] = users[t]
      <4>1. users \in [Fds -> Connections] /\ users[s] \in Connections
        BY InvParts, ZenonT(60) DEF Core, CoreTypes
      <4>2. ReadAll(s).by = users[s].by
        BY <4>1, ZenonT(60) DEF ReadAll, Connections
      <4>3. QED  BY <3>1, <4>1, <4>2, ZenonT(60)
    <3>4. s \in heap'[users'[s].by]
      BY <1>2, <3>1, <3>3, InvParts, ZenonT(60) DEF TimerCovers
    <3>5. \A q \in Reactors : \A t \in Fds \ {s} : t \in heap[q] => t \in heap'[q]
      BY <1>2, ZenonT(60)
    <3>6. TimerCovers'
      BY <3>3, <3>4, <3>5, CoversStep, ZenonT(60)
    <3>7. QED  BY <2>4, <3>2, <3>6, InvParts, ZenonT(60) DEF Inv, ServerAssumption
  <2>7. QED  BY <2>5, <2>6, ZenonT(60)
<1>3. CASE /\ ActorModel = 0 /\ ~users[s].open
           /\ Timer(r, s, FALSE)
           /\ reactor' = After(r, s)
           /\ UNCHANGED <<unread, interest, users>>
  <2>1. Core'
    BY <1>1, <1>3, InvParts, CoreStays, ZenonT(60)
  <2>2. TimerCovers' /\ heap' \in [Reactors -> SUBSET Fds]
    BY <1>3, DropTimer, ZenonT(60)
  <2>3. DOMAIN reactor' = Reactors /\ \A q \in Reactors : Reacting(reactor'[q])
    BY <1>3, InvParts, AfterStep, ZenonT(60)
  <2>4. Places'
    BY <1>1, <2>2, <2>3, InvParts, ZenonT(60) DEF Places
  <2>5. QED  BY <2>1, <2>2, <2>4, InvParts, ZenonT(60) DEF Inv, ServerAssumption
<1>4. QED  BY <1>2, <1>3, ZenonT(60) DEF dealwithread

LEMMA AppendInv ==
    ASSUME Inv, NEW r \in Reactors, append(r)
    PROVE  Inv'
<1>1. PICK s : s = reactor[r].fd
  OBVIOUS
<1>2. s \in Fds
  BY <1>1, InvParts, ZenonT(60) DEF append, Places, Reacting
<1>3. UNCHANGED <<unread, main, pending, worker>>
  BY ZenonT(60) DEF append, handoff
<1>4. DOMAIN reactor' = Reactors /\ \A q \in Reactors : Reacting(reactor'[q])
  <2> DEFINE x == [pc |-> IF reactor[r].batch = {} THEN "wait" ELSE "event",
                   batch |-> reactor[r].batch, fd |-> 0]
  <2>1. x.pc # "append" /\ DOMAIN x = {"pc", "batch", "fd"}
    BY ZenonT(60)
  <2>2. Reacting(x)
    BY <2>1, ZenonT(60) DEF Reacting
  <2>3. reactor' = [reactor EXCEPT ![r] = x]
    BY ZenonT(60) DEF append
  <2> HIDE DEF x
  <2>4. QED  BY <2>2, <2>3, InvParts, ReactorStep, ZenonT(60)
<1>5. CASE Len(tasks) < MaxTasks
  <2>1. /\ tasks' = Append(tasks, s) /\ Timer(r, s, users[s].open)
        /\ UNCHANGED <<client, fd, users>>
    BY <1>1, <1>5, ZenonT(60) DEF append
  <2>2. Core'
    BY <1>3, <2>1, InvParts, CoreStays, ZenonT(60)
  <2>3. tasks' \in Seq(Fds)
    <3>1. tasks \in Seq(Fds)
      BY InvParts, ZenonT(60) DEF Places
    <3>2. QED  BY <1>2, <2>1, <3>1
  <2>4. TimerCovers' /\ heap' \in [Reactors -> SUBSET Fds]
    <3>0. users[s].open \in BOOLEAN
      BY <1>2, InvParts, UserType, ZenonT(60)
    <3>1. CASE users[s].open
      <4>1. Timer(r, s, TRUE) /\ users'[s].by = users[s].by /\ \A t \in Fds \ {s} : users'[t] = users[t]
        BY <2>1, <3>0, <3>1, ZenonT(60) DEF Timer
      <4>2. QED  BY <1>2, <3>1, <4>1, SetTimer, ZenonT(60)
    <3>2. CASE ~users[s].open
      <4>1. Timer(r, s, FALSE)
        BY <2>1, <3>0, <3>2, ZenonT(60) DEF Timer
      <4>2. QED  BY <1>2, <2>1, <3>2, <4>1, DropTimer, ZenonT(60)
    <3>3. QED  BY <3>1, <3>2, ZenonT(60)
  <2>5. Places'
    BY <1>3, <1>4, <2>3, <2>4, InvParts, ZenonT(60) DEF Places
  <2>6. QED  BY <2>2, <2>4, <2>5, InvParts, ZenonT(60) DEF Inv, ServerAssumption
<1>6. CASE ~(Len(tasks) < MaxTasks)
  <2>1. close_conn(s) /\ Timer(r, s, FALSE) /\ UNCHANGED tasks
    BY <1>1, <1>6, ZenonT(60) DEF append
  <2>2. Core' /\ TimerCovers' /\ heap' \in [Reactors -> SUBSET Fds]
    BY <1>2, <1>3, <2>1, CloseAndDrop, ZenonT(60)
  <2>3. Places'
    BY <1>3, <1>4, <2>1, <2>2, InvParts, ZenonT(60) DEF Places
  <2>4. QED  BY <2>2, <2>3, InvParts, ZenonT(60) DEF Inv, ServerAssumption
<1>7. QED  BY <1>5, <1>6, ZenonT(60)

LEMMA BlocksInv ==
    ASSUME Inv, NEW r \in Reactors, NEW s \in Fds, WriteBlocks(r, s)
    PROVE  Inv'
<1>1. /\ users[s].open /\ Timer(r, s, TRUE) /\ reactor' = After(r, s)
      /\ UNCHANGED <<client, unread, fd, users, main, pending, tasks, worker>>
  BY ZenonT(60) DEF WriteBlocks, handoff, pool
<1>2. Core'
  BY <1>1, InvParts, CoreStays, ZenonT(60)
<1>3. TimerCovers' /\ heap' \in [Reactors -> SUBSET Fds]
  <2>1. users'[s].by = users[s].by /\ \A t \in Fds \ {s} : users'[t] = users[t]
    BY <1>1, ZenonT(60)
  <2>2. QED  BY <1>1, <2>1, SetTimer, ZenonT(60)
<1>4. DOMAIN reactor' = Reactors /\ \A q \in Reactors : Reacting(reactor'[q])
  BY <1>1, InvParts, AfterStep, ZenonT(60)
<1>5. Places'
  BY <1>1, <1>3, <1>4, InvParts, ZenonT(60) DEF Places
<1>6. QED  BY <1>2, <1>3, <1>5, InvParts, ZenonT(60) DEF Inv, ServerAssumption

LEMMA WriteInv ==
    ASSUME Inv, NEW r \in Reactors, NEW s \in Fds, dealwithwrite(r, s)
    PROVE  Inv'
<1>1. UNCHANGED <<unread, main, pending, tasks, worker>> /\ reactor' = After(r, s)
  BY ZenonT(60) DEF dealwithwrite, handoff, pool
<1>2. DOMAIN reactor' = Reactors /\ \A q \in Reactors : Reacting(reactor'[q])
  BY <1>1, InvParts, AfterStep, ZenonT(60)
<1>3. users \in [Fds -> Connections]
  BY InvParts, ZenonT(60) DEF Core, CoreTypes
<1>4. SUFFICES Core' /\ TimerCovers' /\ heap' \in [Reactors -> SUBSET Fds]
  <2>1. Places'
    BY <1>1, <1>2, <1>4, InvParts, ZenonT(60) DEF Places
  <2>2. QED  BY <1>4, <2>1, InvParts, ZenonT(60) DEF Inv, ServerAssumption
<1>5. CASE /\ users[s].open
           /\ client' = IF users[s].out > 0
                        THEN [client EXCEPT ![fd[s]].got = Append(@, users[s].answer)] ELSE client
           /\ users' = [users EXCEPT ![s] = init(users[s].by, s)]
           /\ Timer(r, s, TRUE)
           /\ UNCHANGED fd
  <2>1. Core'
    BY <1>1, <1>5, InvParts, CoreWrites, ZenonT(60)
  <2>2. users'[s].by = users[s].by /\ \A t \in Fds \ {s} : users'[t] = users[t]
    <3>1. users[s].by \in Reactors
      BY <1>5, InvParts, ZenonT(60) DEF Core, CoreTypes
    <3>2. init(users[s].by, s).by = users[s].by
      BY <3>1, InitType, ZenonT(60)
    <3>3. QED  BY <1>3, <1>5, <3>2, ZenonT(60)
  <2>3. TimerCovers' /\ heap' \in [Reactors -> SUBSET Fds]
    BY <1>5, <2>2, SetTimer, ZenonT(60)
  <2>4. QED  BY <2>1, <2>3, ZenonT(60)
<1>6. CASE /\ users[s].open /\ users[s].out > 0
           /\ client' = [[client EXCEPT ![fd[s]].got = Append(@, users[s].answer)]
                           EXCEPT ![fd[s]].pc = "closed"]
           /\ users' = [users EXCEPT ![s] = Closed(users[s].by)]
           /\ fd' = [fd EXCEPT ![s] = None]
           /\ Timer(r, s, FALSE)
  <2>1. Core'
    BY <1>1, <1>6, InvParts, CoreWritesLast, ZenonT(60)
  <2>2. ~users'[s].open /\ \A t \in Fds \ {s} : users'[t] = users[t]
    <3>1. ~Closed(users[s].by).open
      BY ZenonT(60) DEF Closed
    <3>2. QED  BY <1>3, <1>6, <3>1, ZenonT(60)
  <2>3. /\ heap' \in [Reactors -> SUBSET Fds]
        /\ \A q \in Reactors : \A t \in Fds \ {s} : t \in heap[q] => t \in heap'[q]
    <3>1. FALSE \in BOOLEAN
      OBVIOUS
    <3>2. QED  BY <1>6, <3>1, InvParts, TimerStep, ZenonT(60)
  <2>4. TimerCovers'
    BY <2>2, <2>3, CoversStep, ZenonT(60)
  <2>5. QED  BY <2>1, <2>3, <2>4, ZenonT(60)
<1>7. CASE ~users[s].open /\ Timer(r, s, FALSE) /\ UNCHANGED <<client, fd, interest, users>>
  <2>1. Core'
    BY <1>1, <1>7, InvParts, CoreStays, ZenonT(60)
  <2>2. TimerCovers' /\ heap' \in [Reactors -> SUBSET Fds]
    BY <1>7, DropTimer, ZenonT(60)
  <2>3. QED  BY <2>1, <2>2, ZenonT(60)
<1>8. QED  BY <1>5, <1>6, <1>7, ZenonT(60) DEF dealwithwrite

\* The pool.
LEMMA TakeInv ==
    ASSUME Inv, NEW w \in Workers, TakeTask(w)
    PROVE  Inv'
<1>1. /\ UNCHANGED <<client, unread, fd, users, main, pending, reactor, heap>>
      /\ tasks # <<>> /\ tasks' = Tail(tasks) /\ worker' = [worker EXCEPT ![w] = Head(tasks)]
  BY ZenonT(60) DEF TakeTask, net, handoff
<1>2. Core' /\ TimerCovers'
  BY <1>1, InvParts, CoreStays, ZenonT(60) DEF TimerCovers
<1>3. Head(tasks) \in Fds /\ tasks' \in Seq(Fds) /\ worker \in [Workers -> Fds \cup {None}]
  <2>1. tasks \in Seq(Fds) /\ worker \in [Workers -> Fds \cup {None}]
    BY InvParts, ZenonT(60) DEF Places
  <2>2. QED  BY <1>1, <2>1
<1>4. worker' \in [Workers -> Fds \cup {None}]
  BY <1>1, <1>3, ZenonT(60)
<1>5. Places'
  BY <1>1, <1>3, <1>4, InvParts, ZenonT(60) DEF Places
<1>6. QED  BY <1>2, <1>5, InvParts, ZenonT(60) DEF Inv, ServerAssumption

LEMMA ProcessInv ==
    ASSUME Inv, NEW w \in Workers, ProcessWaits(w) \/ ProcessAnswers(w)
    PROVE  Inv'
<1>1. PICK s : s = worker[w]
  OBVIOUS
<1>2. s \in Fds
  BY <1>1, InvParts, ZenonT(60) DEF ProcessWaits, ProcessAnswers, Places
<1>3. UNCHANGED <<unread, main, pending, reactor, heap, tasks>> /\ worker' = [worker EXCEPT ![w] = None]
  BY ZenonT(60) DEF ProcessWaits, ProcessAnswers, handoff
<1>4. Places'
  <2>1. worker' \in [Workers -> Fds \cup {None}]
    BY <1>3, InvParts, ZenonT(60) DEF Places
  <2>2. QED  BY <1>3, <2>1, InvParts, ZenonT(60) DEF Places
<1>5. users \in [Fds -> Connections] /\ users[s] \in Connections /\ users[s].out \in {0, 1}
  BY <1>2, InvParts, UserType, ZenonT(60) DEF Core, CoreTypes
<1>6. SUFFICES /\ Core' /\ \A t \in Fds \ {s} : users'[t] = users[t]
               /\ users'[s].open => users[s].open /\ users'[s].by = users[s].by
  <2>1. users'[s].open => s \in heap'[users'[s].by]
    BY <1>2, <1>3, <1>6, InvParts, ZenonT(60) DEF TimerCovers
  <2>2. \A q \in Reactors : \A t \in Fds \ {s} : t \in heap[q] => t \in heap'[q]
    BY <1>3, ZenonT(60)
  <2>3. TimerCovers'
    BY <1>2, <1>6, <2>1, <2>2, CoversStep, ZenonT(60)
  <2>4. QED  BY <1>4, <1>6, <2>3, InvParts, ZenonT(60) DEF Inv, ServerAssumption
<1>7. CASE ProcessWaits(w)
  <2>1. PICK b \in BOOLEAN : users' = [users EXCEPT ![s].fresh = b]
    <3> DEFINE b == response_pending(users[s]) /\ users[s].fresh
    <3>1. b \in BOOLEAN
      OBVIOUS
    <3>2. users' = [users EXCEPT ![s].fresh = b]
      BY <1>1, <1>7, ZenonT(60) DEF ProcessWaits
    <3> HIDE DEF b
    <3>3. QED  BY <3>1, <3>2, ZenonT(60)
  <2>2. UNCHANGED <<client, fd>>
    BY <1>7, ZenonT(60) DEF ProcessWaits
  <2>3. Core'
    BY <1>2, <1>3, <2>1, <2>2, InvParts, CoreFresh, ZenonT(60)
  <2>4. QED  BY <1>2, <1>5, <2>1, <2>3, ZenonT(60) DEF Connections
<1>8. CASE /\ users[s].out = 0 /\ Complete(users[s]) /\ UNCHANGED <<client, fd>>
           /\ users' = [users EXCEPT ![s] = [users[s] EXCEPT !.fresh = FALSE, !.buf = <<>>, !.out = 1,
                                                             !.answer = users[s].buf]]
  <2>1. Core'
    BY <1>2, <1>3, <1>8, InvParts, CoreAnswers, ZenonT(60)
  <2>2. QED  BY <1>2, <1>5, <1>8, <2>1, ZenonT(60) DEF Connections
<1>9. CASE close_conn(s)
  BY <1>2, <1>3, <1>9, InvParts, CoreClose, Closes, ZenonT(60)
<1>10. CASE ProcessAnswers(w)
  <2>1. users[s].out = 0
    <3>1. ~(users[s].out > 0)
      BY <1>1, <1>10, ZenonT(60) DEF ProcessAnswers, response_pending
    <3>2. QED  BY <1>5, <3>1
  <2>2. QED  BY <1>1, <1>8, <1>9, <1>10, <2>1, ZenonT(60) DEF ProcessAnswers
<1>11. QED  BY <1>7, <1>10, ZenonT(60)

LEMMA InvNext == Inv /\ [Next]_vars => Inv'
<1> SUFFICES ASSUME Inv, [Next]_vars PROVE Inv'
  OBVIOUS
<1>1. CASE UNCHANGED vars
  <2>1. UNCHANGED <<client, unread, fd, users, main, pending, reactor, heap, tasks, worker>>
    BY <1>1, ZenonT(60) DEF vars, net, handoff, pool
  <2>2. Core' /\ Places' /\ TimerCovers'
    BY <2>1, InvParts, CoreStays, ZenonT(60) DEF Places, TimerCovers
  <2>3. QED  BY <2>2, InvParts, ZenonT(60) DEF Inv, ServerAssumption
<1>2. CASE \E c \in Clients : Connect(c) \/ Send(c) \/ HangUp(c) \/ Accept(c) \/ Refuse(c)
  BY <1>2, ClientInv, ZenonT(60)
<1>3. CASE PushPending \/ NotifyReactor
  BY <1>3, MainInv, ZenonT(60)
<1>4. ASSUME NEW r \in Reactors,
             \/ epoll_wait(r) \/ handle_notify(r) \/ register_connection(r) \/ Drained(r) \/ append(r)
             \/ \E s \in Fds : CloseOnHup(r, s) \/ dealwithread(r, s) \/ WriteBlocks(r, s)
                                 \/ dealwithwrite(r, s) \/ scan_timeout(r, s)
      PROVE  Inv'
  BY <1>4, EventsInv, RegisterInv, AppendInv, HupInv, ReadInv, BlocksInv, WriteInv, ZenonT(60)
<1>5. ASSUME NEW w \in Workers, TakeTask(w) \/ ProcessWaits(w) \/ ProcessAnswers(w)
      PROVE  Inv'
  BY <1>5, TakeInv, ProcessInv, ZenonT(60)
<1>6. QED  BY <1>1, <1>2, <1>3, <1>4, <1>5, ZenonT(60) DEF Next

LEMMA InvInit == ServerAssumption /\ Init => Inv
<1> SUFFICES ASSUME ServerAssumption, Init PROVE Inv
  OBVIOUS
<1>0. <<>> \in Seq(Segments) /\ <<>> \in Seq(Seq(Segments)) /\ <<>> \in Seq(Fds) /\ 0 \in Nat
  OBVIOUS
<1>1. Closed(None) \in Connections /\ ~Closed(None).open /\ Closed(None).buf = <<>> /\ Closed(None).out = 0
  BY <1>0, ZenonT(60) DEF Closed, Connections
<1> DEFINE k == [pc |-> "new", sent |-> 0, got |-> <<>>, gone |-> FALSE]
<1>2. k \in ClientStates /\ k.sent = 0 /\ k.got = <<>>
  BY <1>0, ZenonT(60) DEF ClientStates
<1>3. /\ client = [c \in Clients |-> k] /\ unread = [c \in Clients |-> 0] /\ fd = [s \in Fds |-> None]
      /\ users = [s \in Fds |-> Closed(None)] /\ pending = [r \in Reactors |-> <<>>]
      /\ main.pc = "wait" /\ DOMAIN main = {"pc", "fd", "next"}
  BY ZenonT(60) DEF Init
<1> HIDE DEF k
<1>4. None \notin Clients
  BY ZenonT(60) DEF ServerAssumption
<1>5. CoreTypes
  BY <1>0, <1>1, <1>2, <1>3, ZenonT(60) DEF CoreTypes
<1>6. Connected
  BY <1>1, <1>3, <1>4, ZenonT(60) DEF Connected
<1>7. Handed
  <2>1. \A r \in Reactors : 1..Len(pending[r]) = {}
    BY <1>3
  <2>2. QED  BY <1>3, <2>1, ZenonT(60) DEF Handed
<1>8. Buffers
  <2>1. ASSUME NEW c \in Clients PROVE Answered(c)
    <3>1. client[c].got = <<>> /\ client[c].sent = 0 /\ unread[c] = 0
      BY <1>2, <1>3, ZenonT(60)
    <3>2. Got(c) = 0 /\ Read(c) = 0 /\ Upto(0) = 0 /\ Parts \in Nat
      BY <3>1, PartsType DEF Got, Read, Upto
    <3>3. QED  BY <3>1, <3>2 DEF Answered
  <2>2. \A s \in Fds : ~users[s].open /\ users[s].buf = <<>> /\ users[s].out = 0
    BY <1>1, <1>3, ZenonT(60)
  <2>3. QED  BY <2>1, <2>2, ZenonT(60) DEF Buffers
<1>9. Places
  <2>1. /\ heap = [r \in Reactors |-> {}] /\ tasks = <<>> /\ worker = [w \in Workers |-> None]
        /\ reactor = [r \in Reactors |-> [pc |-> "wait", batch |-> {}, fd |-> 0]]
    BY ZenonT(60) DEF Init
  <2>2. Reacting([pc |-> "wait", batch |-> {}, fd |-> 0])
    BY ZenonT(60) DEF Reacting
  <2>3. QED  BY <1>0, <2>1, <2>2, ZenonT(60) DEF Places
<1>10. TimerCovers
  BY <1>1, <1>3, ZenonT(60) DEF TimerCovers
<1>11. QED  BY <1>5, <1>6, <1>7, <1>8, <1>9, <1>10, ZenonT(60) DEF Inv, Core

LEMMA InvAlways == ServerAssumption /\ Spec => []Inv
  BY InvInit, InvNext, PTL DEF Spec

\* Every client gets the answers to its own requests, whole and in order, whatever
\* tasks, timers and events of earlier connections are around: for any number of
\* clients, reactors, pool threads, descriptors, segments and faults, and for both
\* actor models.
THEOREM AnswersSafe == ServerAssumption /\ Spec => []AnswersMatch
<1>1. Inv => AnswersMatch
  <2>1. Inv => \A c \in Clients : Answered(c)
    BY ZenonT(60) DEF Inv, Core, Buffers
  <2>2. QED  BY <2>1, ZenonT(60) DEF Answered, AnswersMatch, Whole, Got
<1>2. QED  BY <1>1, InvAlways, PTL

\* Every open connection has a timer with its reactor, for the same constants: no
\* thread that cleans up after an earlier connection takes it away.
THEOREM TimersSafe == ServerAssumption /\ Spec => []TimerCovers
<1>1. Inv => TimerCovers
  BY ZenonT(60) DEF Inv
<1>2. QED  BY <1>1, InvAlways, PTL
=============================================================================
