------------------------------- MODULE Server -------------------------------
(***************************************************************************)
(* app/webserver*.cpp with the connection objects of http/core: the main   *)
(* thread accepts and hands a descriptor to a sub-reactor, the sub-reactor *)
(* reads and writes, the thread pool processes requests.                   *)
(*                                                                         *)
(* users[fd] outlives the connection on fd: tasks, timers and events of a  *)
(* batch name the slot, and the kernel gives a closed descriptor to the    *)
(* next client.  read_once, write, process, init and close_conn run under  *)
(* the slot's request lock, so each is one step; what a thread does        *)
(* between two of them is not.                                             *)
(*                                                                         *)
(* A request is Parts segments, and a client sends the next one after the  *)
(* answer.  TLS is off.  m_user_count is updated by threads that hold      *)
(* different locks, so the test against MAX_FD may go either way.          *)
(***************************************************************************)
EXTENDS Naturals, Sequences, FiniteSets

CONSTANTS
    Clients, Reactors, Workers,
    Fds,            \* the descriptors, numbered: accept takes the lowest free one
    ActorModel,     \* m_actormodel
    MaxTasks,       \* length of the pool's queue
    Parts,          \* segments of a request
    Requests,       \* bound: requests of a client
    Brief,          \* bound: clients that send a single request
    MaxFaults,      \* bound: refusals, failed responses, full sockets, idle timeouts and hang-ups
    None

\* Holds of the constants of every instance.
ServerAssumption ==
    /\ Fds \subseteq Nat \ {0} /\ ActorModel \in {0, 1}
    /\ {MaxTasks, Parts, Requests} \subseteq Nat \ {0}
    /\ MaxFaults \in Nat /\ Brief \subseteq Clients
    /\ None \notin Clients \cup Fds

VARIABLES
    client,     \* per client: [pc, sent, got, gone]: segments sent, answers received
    unread,     \* per client: segments in the kernel's receive buffer
    fd,         \* per descriptor: the client it is connected to, or None
    interest,   \* per descriptor: [by, ev]: what epoll waits for; "off" once delivered
    users,      \* per descriptor: the HttpConnection
    main,       \* the main thread: [pc, fd, next]
    pending, notify,    \* per reactor: m_pending_connections; m_notifyfd: [count, edge]
    reactor,    \* per reactor: [pc, batch, fd]
    heap,       \* per reactor: descriptors with a timer
    tasks,      \* the pool's queue, and what each worker holds
    worker,
    faults

net == <<client, unread, fd, interest>>
handoff == <<main, pending, notify>>
pool == <<tasks, worker>>
vars == <<net, users, handoff, reactor, heap, pool, faults>>

\* m_sockfd # -1, m_epollfd, the read buffer, m_has_new_data, bytes_to_send and
\* the request the response answers
Closed(by) == [open |-> FALSE, by |-> by, buf |-> <<>>, fresh |-> FALSE, out |-> 0, answer |-> <<>>]

Init ==
    /\ client = [c \in Clients |-> [pc |-> "new", sent |-> 0, got |-> <<>>, gone |-> FALSE]]
    /\ unread = [c \in Clients |-> 0]
    /\ fd = [s \in Fds |-> None]
    /\ interest = [s \in Fds |-> [by |-> None, ev |-> "off"]]
    /\ users = [s \in Fds |-> Closed(None)]
    /\ main = [pc |-> "wait", fd |-> 0, next |-> CHOOSE r \in Reactors : TRUE]
    /\ pending = [r \in Reactors |-> <<>>]
    /\ notify = [r \in Reactors |-> [count |-> 0, edge |-> FALSE]]
    /\ reactor = [r \in Reactors |-> [pc |-> "wait", batch |-> {}, fd |-> 0]]
    /\ heap = [r \in Reactors |-> {}]
    /\ tasks = <<>> /\ worker = [w \in Workers |-> None]
    /\ faults = 0

Fault == faults < MaxFaults /\ faults' = faults + 1
-----------------------------------------------------------------------------
(***************************************************************************)
(* Clients                                                                 *)
(***************************************************************************)
Connect(c) ==
    /\ client[c].pc = "new"
    /\ client' = [client EXCEPT ![c].pc = "backlog"]
    /\ UNCHANGED <<unread, fd, interest, users, handoff, reactor, heap, pool, faults>>

RequestsOf(c) == IF c \in Brief THEN 1 ELSE Requests

\* One more segment of the current request.
Send(c) ==
    /\ client[c].pc \in {"backlog", "open"} /\ ~client[c].gone
    /\ client[c].sent < Parts * RequestsOf(c)
    /\ client[c].sent < Parts * (Len(client[c].got) + 1)
    /\ client' = [client EXCEPT ![c].sent = @ + 1]
    /\ unread' = [unread EXCEPT ![c] = @ + 1]
    /\ UNCHANGED <<fd, interest, users, handoff, reactor, heap, pool, faults>>

HangUp(c) ==
    /\ client[c].pc = "open" /\ ~client[c].gone
    /\ Fault
    /\ client' = [client EXCEPT ![c].gone = TRUE]
    /\ UNCHANGED <<unread, fd, interest, users, handoff, reactor, heap, pool>>
-----------------------------------------------------------------------------
(***************************************************************************)
(* The main thread: dealclientdata and SubReactor::dispatch                *)
(***************************************************************************)
Free == {s \in Fds : fd[s] = None}
NextReactor(r) == IF Reactors = {r} THEN r ELSE CHOOSE q \in Reactors : q # r

Accept(c) ==
    /\ main.pc = "wait" /\ client[c].pc = "backlog"
    /\ \E s \in Free :
        /\ \A t \in Free : s <= t
        /\ fd' = [fd EXCEPT ![s] = c]
        /\ main' = [main EXCEPT !.pc = "push", !.fd = s]
    /\ client' = [client EXCEPT ![c].pc = "open"]
    /\ UNCHANGED <<unread, interest, users, pending, notify, reactor, heap, pool, faults>>

\* m_user_count >= MAX_FD: show_error closes the descriptor.
Refuse(c) ==
    /\ main.pc = "wait" /\ client[c].pc = "backlog" /\ Free # {}
    /\ Fault
    /\ client' = [client EXCEPT ![c].pc = "closed"]
    /\ UNCHANGED <<unread, fd, interest, users, handoff, reactor, heap, pool>>

PushPending ==
    /\ main.pc = "push"
    /\ pending' = [pending EXCEPT ![main.next] = Append(@, main.fd)]
    /\ main' = [main EXCEPT !.pc = "notify"]
    /\ UNCHANGED <<net, users, notify, reactor, heap, pool, faults>>

\* The eventfd is registered edge-triggered: a write makes it ready again.
NotifyReactor ==
    /\ main.pc = "notify"
    /\ notify' = [notify EXCEPT ![main.next] = [count |-> @.count + 1, edge |-> TRUE]]
    /\ main' = [pc |-> "wait", fd |-> 0, next |-> NextReactor(main.next)]
    /\ UNCHANGED <<net, users, pending, reactor, heap, pool, faults>>
-----------------------------------------------------------------------------
(***************************************************************************)
(* The connection object                                                   *)
(***************************************************************************)
modfd(i, s, ev) == IF fd[s] # None /\ i[s].by # None THEN [i EXCEPT ![s].ev = ev] ELSE i

\* close_conn_locked: the descriptor is free again, the buffers are released.
close_conn(s) ==
    IF users[s].open
    THEN /\ client' = [client EXCEPT ![fd[s]].pc = "closed"]
         /\ fd' = [fd EXCEPT ![s] = None]
         /\ interest' = [interest EXCEPT ![s] = [by |-> None, ev |-> "off"]]
         /\ users' = [users EXCEPT ![s] = [Closed(@.by) EXCEPT !.fresh = users[s].fresh]]
    ELSE UNCHANGED <<client, fd, interest, users>>

\* A plausible slip: a new request starts from what the last one left.
InitResetsNothing(r, s) == [users[s] EXCEPT !.open = TRUE, !.by = r]

init(r, s) == [Closed(r) EXCEPT !.open = TRUE]

\* The n-th segment a client sends, as <<client, request, segment>>.
Segment(c, n) == <<c, (n - 1) \div Parts + 1, ((n - 1) % Parts) + 1>>

\* read_once, when the descriptor is good: every segment that is there.
ReadAll(s) ==
    LET c == fd[s]
        first == client[c].sent - unread[c]
    IN  [users[s] EXCEPT !.buf = @ \o [i \in 1..unread[c] |-> Segment(c, first + i)],
                         !.fresh = unread[c] > 0]

\* process_read: a request is complete when all its segments are in the buffer.
Complete(u) == Len(u.buf) >= Parts
-----------------------------------------------------------------------------
(***************************************************************************)
(* A sub-reactor: run and what it calls                                    *)
(***************************************************************************)
Hup(s) == client[fd[s]].gone

\* What epoll_wait would report on a descriptor.
Ready(r, s) ==
    /\ fd[s] # None /\ interest[s].by = r /\ interest[s].ev # "off"
    /\ Hup(s) \/ interest[s].ev = "out" \/ unread[fd[s]] > 0

Event(s) == [fd |-> s, ev |-> IF Hup(s) THEN "hup" ELSE interest[s].ev]

\* All that is ready (MAX_EVENT_NUMBER is large).  EPOLLONESHOT: each is off then.
epoll_wait(r) ==
    LET ready == {s \in Fds : Ready(r, s)}
        batch == {Event(s) : s \in ready}
                    \cup (IF notify[r].edge THEN {[fd |-> 0, ev |-> "notify"]} ELSE {})
    IN  /\ reactor[r].pc = "wait" /\ batch # {}
        /\ reactor' = [reactor EXCEPT ![r] = [pc |-> "event", batch |-> batch, fd |-> 0]]
        /\ interest' = [s \in Fds |-> IF s \in ready THEN [interest[s] EXCEPT !.ev = "off"] ELSE interest[s]]
        /\ notify' = [notify EXCEPT ![r].edge = FALSE]
        /\ UNCHANGED <<client, unread, fd, users, main, pending, heap, pool, faults>>

Handles(r, s, ev) == reactor[r].pc = "event" /\ [fd |-> s, ev |-> ev] \in reactor[r].batch

\* The reactor without the event on s, at the next event or back at epoll_wait.
After(r, s) ==
    LET rest == {e \in reactor[r].batch : e.fd # s}
    IN  [reactor EXCEPT ![r] = [pc |-> IF rest = {} THEN "wait" ELSE "event", batch |-> rest, fd |-> 0]]

\* refresh_timer or remove_connection, by is_open
Timer(r, s, open) == heap' = [heap EXCEPT ![r] = IF open THEN @ \cup {s} ELSE @ \ {s}]

\* handle_notify reads the counter, empties the queue, and reads again.
handle_notify(r) ==
    /\ Handles(r, 0, "notify")
    /\ IF notify[r].count = 0 THEN reactor' = After(r, 0)
       ELSE reactor' = [reactor EXCEPT ![r].pc = "drain"]
    /\ notify' = [notify EXCEPT ![r].count = 0]
    /\ UNCHANGED <<net, users, main, pending, heap, pool, faults>>

register_connection(r) ==
    /\ reactor[r].pc = "drain" /\ pending[r] # <<>>
    /\ LET s == Head(pending[r])
       IN  /\ users' = [users EXCEPT ![s] = init(r, s)]
           /\ interest' = [interest EXCEPT ![s] = [by |-> r, ev |-> "in"]]
           /\ Timer(r, s, TRUE)
    /\ pending' = [pending EXCEPT ![r] = Tail(@)]
    /\ UNCHANGED <<client, unread, fd, main, notify, reactor, pool, faults>>

Drained(r) ==
    /\ reactor[r].pc = "drain" /\ pending[r] = <<>>
    /\ reactor' = [reactor EXCEPT ![r].pc = "event"]
    /\ UNCHANGED <<net, users, handoff, heap, pool, faults>>

CloseOnHup(r, s) ==
    /\ Handles(r, s, "hup")
    /\ close_conn(s)
    /\ Timer(r, s, FALSE)
    /\ reactor' = After(r, s)
    /\ UNCHANGED <<unread, handoff, pool, faults>>

\* dealwithread, up to the task.  With actor model 1 the pool is to read, and
\* to write: dealwithwrite is the same.
dealwithread(r, s) ==
    /\ Handles(r, s, "in") \/ (Handles(r, s, "out") /\ ActorModel = 1)
    /\ \/ /\ ActorModel = 1 \/ users[s].open
          /\ IF ActorModel = 1 THEN UNCHANGED <<unread, interest, users>>
             ELSE /\ users' = [users EXCEPT ![s] = ReadAll(s)]
                  /\ unread' = [unread EXCEPT ![fd[s]] = 0]
                  /\ interest' = modfd(interest, s, "in")
          /\ reactor' = [reactor EXCEPT ![r] = [pc |-> "append", batch |-> {e \in @.batch : e.fd # s}, fd |-> s]]
          /\ UNCHANGED heap
       \/ /\ ActorModel = 0 /\ ~users[s].open
          /\ Timer(r, s, FALSE)
          /\ reactor' = After(r, s)
          /\ UNCHANGED <<unread, interest, users>>
    /\ UNCHANGED <<client, fd, handoff, pool, faults>>

\* append or append_p, and the timer.  A full queue closes the connection.
append(r) ==
    LET s == reactor[r].fd
    IN  /\ reactor[r].pc = "append"
        /\ IF Len(tasks) < MaxTasks
           THEN tasks' = Append(tasks, s) /\ Timer(r, s, users[s].open) /\ UNCHANGED <<client, fd, interest, users>>
           ELSE close_conn(s) /\ Timer(r, s, FALSE) /\ UNCHANGED tasks
        /\ reactor' = [reactor EXCEPT ![r] = [pc |-> IF @.batch = {} THEN "wait" ELSE "event",
                                              batch |-> @.batch, fd |-> 0]]
        /\ UNCHANGED <<unread, handoff, worker, faults>>

\* write: the socket is full.
WriteBlocks(r, s) ==
    /\ Handles(r, s, "out") /\ ActorModel = 0
    /\ users[s].open /\ users[s].out > 0
    /\ Fault
    /\ interest' = modfd(interest, s, "out")
    /\ Timer(r, s, TRUE)
    /\ reactor' = After(r, s)
    /\ UNCHANGED <<client, unread, fd, users, handoff, pool>>

\* A plausible slip: a connection that is kept is not armed again.
FinishForgetsRearm(s) == interest

\* finish_write_cycle waits for input again.
finish_write_cycle(s) == modfd(interest, s, "in")

\* write to the end.  The last request does not ask to keep the connection.
dealwithwrite(r, s) ==
    LET c == fd[s]
        answered == [client EXCEPT ![c].got = Append(@, users[s].answer)]
        linger == users[s].answer[1][2] < RequestsOf(c)
    IN  /\ Handles(r, s, "out") /\ ActorModel = 0
        /\ \/ /\ users[s].open /\ (users[s].out > 0 => linger)
              /\ client' = IF users[s].out > 0 THEN answered ELSE client
              /\ users' = [users EXCEPT ![s] = init(@.by, s)]
              /\ interest' = finish_write_cycle(s)
              /\ Timer(r, s, TRUE)
              /\ UNCHANGED fd
           \/ /\ users[s].open /\ users[s].out > 0 /\ ~linger
              /\ client' = [answered EXCEPT ![c].pc = "closed"]
              /\ users' = [users EXCEPT ![s] = Closed(@.by)]
              /\ fd' = [fd EXCEPT ![s] = None]
              /\ interest' = [interest EXCEPT ![s] = [by |-> None, ev |-> "off"]]
              /\ Timer(r, s, FALSE)
           \/ /\ ~users[s].open
              /\ Timer(r, s, FALSE)
              /\ UNCHANGED <<client, fd, interest, users>>
        /\ reactor' = After(r, s)
        /\ UNCHANGED <<unread, handoff, pool, faults>>

\* A plausible slip: the timer of an active connection is not set again.
ScanForgets(r, s) ==
    /\ reactor[r].pc = "wait" /\ s \in heap[r]
    /\ Timer(r, s, FALSE)
    /\ UNCHANGED <<net, users, handoff, reactor, pool, faults>>

\* scan_timeout: the timer of a closed slot is dropped, an idle connection is
\* closed; one that was active gets a new timer, which is the same here.
scan_timeout(r, s) ==
    /\ reactor[r].pc = "wait" /\ s \in heap[r]
    /\ IF users[s].open THEN Fault ELSE UNCHANGED faults
    /\ close_conn(s)
    /\ Timer(r, s, FALSE)
    /\ UNCHANGED <<unread, handoff, reactor, pool>>
-----------------------------------------------------------------------------
(***************************************************************************)
(* The thread pool: execute, which calls process (the pool is always built *)
(* with actor_model 0)                                                     *)
(***************************************************************************)
TakeTask(w) ==
    /\ worker[w] = None /\ tasks # <<>>
    /\ worker' = [worker EXCEPT ![w] = Head(tasks)]
    /\ tasks' = Tail(tasks)
    /\ UNCHANGED <<net, users, handoff, reactor, heap, faults>>

response_pending(u) == u.out > 0

\* Nothing to do yet: the descriptor is armed again.
ProcessWaits(w) ==
    LET s == worker[w]
        u == users[s]
    IN  /\ s # None /\ (response_pending(u) \/ ~u.fresh \/ ~Complete(u))
        /\ interest' = IF u.open THEN modfd(interest, s, IF response_pending(u) THEN "out" ELSE "in") ELSE interest
        /\ users' = [users EXCEPT ![s].fresh = response_pending(u) /\ @]
        /\ worker' = [worker EXCEPT ![w] = None]
        /\ UNCHANGED <<client, unread, fd, handoff, reactor, heap, tasks, faults>>

\* process_read, reset_request_parser_state and process_write; a response that
\* cannot be built closes the connection.
ProcessAnswers(w) ==
    LET s == worker[w]
        u == users[s]
    IN  /\ s # None /\ ~response_pending(u) /\ u.fresh /\ Complete(u)
        /\ \/ /\ users' = [users EXCEPT ![s] = [u EXCEPT !.fresh = FALSE, !.buf = <<>>, !.out = 1,
                                                        !.answer = u.buf]]
              /\ interest' = modfd(interest, s, "out")
              /\ UNCHANGED <<client, fd, faults>>
           \/ Fault /\ close_conn(s)
        /\ worker' = [worker EXCEPT ![w] = None]
        /\ UNCHANGED <<unread, handoff, reactor, heap, tasks>>
-----------------------------------------------------------------------------
Reacts(r) ==
    \/ epoll_wait(r) \/ handle_notify(r) \/ register_connection(r) \/ Drained(r) \/ append(r)
    \/ \E s \in Fds : CloseOnHup(r, s) \/ dealwithread(r, s) \/ dealwithwrite(r, s)
Accepts == (\E c \in Clients : Accept(c)) \/ PushPending \/ NotifyReactor
Works(w) == TakeTask(w) \/ ProcessWaits(w) \/ ProcessAnswers(w)

Next ==
    \/ \E c \in Clients : Connect(c) \/ Send(c) \/ HangUp(c) \/ Accept(c) \/ Refuse(c)
    \/ PushPending \/ NotifyReactor
    \/ \E r \in Reactors :
        \/ epoll_wait(r) \/ handle_notify(r) \/ register_connection(r) \/ Drained(r) \/ append(r)
        \/ \E s \in Fds : CloseOnHup(r, s) \/ dealwithread(r, s) \/ WriteBlocks(r, s)
                            \/ dealwithwrite(r, s) \/ scan_timeout(r, s)
    \/ \E w \in Workers : TakeTask(w) \/ ProcessWaits(w) \/ ProcessAnswers(w)

\* Every thread is scheduled.  Timers are left out: a lost event is not to be
\* covered up by the timeout.
Spec ==
    /\ Init /\ [][Next]_vars
    /\ WF_vars(Accepts)
    /\ \A r \in Reactors : WF_vars(Reacts(r))
    /\ \A w \in Workers : WF_vars(Works(w))
-----------------------------------------------------------------------------
(***************************************************************************)
(* Properties                                                              *)
(***************************************************************************)

\* A client receives answers to its own requests, whole and in order, although
\* the slot of its descriptor has served others whose tasks, timers and events
\* are still around.
AnswersMatch ==
    \A c \in Clients : \A i \in 1..Len(client[c].got) :
        client[c].got[i] = [p \in 1..Parts |-> <<c, i, p>>]

\* Every open connection has a timer in the heap of the reactor whose epoll set
\* it is in, so that an idle one is found: no thread's cleanup of an earlier
\* connection on the descriptor takes the timer away.
TimerCovers == \A s \in Fds : users[s].open => s \in heap[users[s].by]

Waiting(c) ==
    client[c].pc \in {"backlog", "open"} /\ client[c].sent = Parts * (Len(client[c].got) + 1)

\* A client that has sent a whole request is answered or its connection is
\* closed, without the help of the idle timeout: no event, notification or task
\* is lost between the threads.  The requests are finitely many, so there comes
\* a time when nobody waits.
RequestServed == (\E c \in Clients : Waiting(c)) ~> (\A c \in Clients : ~Waiting(c))
=============================================================================
