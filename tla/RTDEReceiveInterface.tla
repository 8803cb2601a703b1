------------------------- MODULE RTDEReceiveInterface -------------------------
(***************************************************************************)
(* RTDEReceiveInterface (src/src/rtde_receive_interface.cpp): one user     *)
(* thread that constructs, disconnects and reconnects the interface, and   *)
(* the background threads running receiveCallback().  All threads share    *)
(* the RTDE session rtde_, the RobotState robot_state_ and the flag        *)
(* stop_thread.  The RTDE class itself is not under src/: its connection   *)
(* state is taken from spec.md section 4.2.                                *)
(*                                                                         *)
(* Every boost::thread the interface creates has an id in 1..MaxThreads:   *)
(* the constructor creates thread 1, each reconnect() the next one.        *)
(* receiveData reads one output package from the socket and then decodes   *)
(* it into robot_state_ (spec 4.2); the two halves are separate steps.     *)
(* RobotState's own lock (spec 5) makes a single getter atomic.           *)
(***************************************************************************)
EXTENDS Integers, FiniteSets, Sequences

CONSTANTS
    MaxThreads,  \* bound on the receive threads created (ctor + reconnects)
    HalfOpen     \* the link may die silently: no frame and no error reaches the host

ASSUME MaxThreads \in Nat \ {0} /\ HalfOpen \in BOOLEAN

Threads == 1..MaxThreads
NoThread == 0          \* th_ before the constructor has created a thread

VARIABLES
    session,      \* state of rtde_: "DISCONNECTED" or "STARTED"
    link,         \* "up" while the TCP connection under rtde_ works; "down" once it
                  \* has failed with an error; "silent" when the peer vanished unseen
    conn,         \* number of successful rtde_->connect() calls: the socket generation
    snapshot,     \* socket generation of the frame last decoded into robot_state_ (0: none)
    inflight,     \* threads holding a package read but not yet decoded, in read order
    stale,        \* threads whose held package is older than the one in robot_state_
    stop_thread,  \* the member stop_thread, shared by all threads
    th,           \* th_: the thread disconnect() joins
    pc,           \* pc[t]: where receive thread t is in receiveCallback()
    sock,         \* sock[t]: socket generation receive thread t is blocked reading
    upc,          \* where the user thread is
    got           \* generation of the state the last getter returned; Thrown if it threw

vars == <<session, link, conn, snapshot, inflight, stale, stop_thread, th, pc, sock, upc, got>>

Thrown == -1      \* a getter ended with std::out_of_range

ThreadPcs == {"unborn", "check", "recv", "apply", "handle", "stop", "done"}
UserPcs   == {"construct", "idle", "join", "close", "reset", "spawn"}

TypeOK ==
    /\ session \in {"DISCONNECTED", "STARTED"}
    /\ link \in {"up", "down", "silent"}
    /\ conn \in 0..MaxThreads
    /\ snapshot \in 0..conn
    /\ inflight \in Seq(Threads)
    /\ stale \subseteq Threads
    /\ stop_thread \in BOOLEAN
    /\ th \in Threads \cup {NoThread}
    /\ pc \in [Threads -> ThreadPcs]
    /\ sock \in [Threads -> 0..MaxThreads]
    /\ upc \in UserPcs
    /\ got \in {Thrown} \cup 0..MaxThreads

Spawned == {t \in Threads : pc[t] # "unborn"}

\* rtde_->isConnected()
IsConnected == session = "STARTED"

\* Frames of socket generation g reach the host: the controller streams
\* output packages on the current socket while it is started and up.
Streaming(g) == session = "STARTED" /\ link = "up" /\ g = conn

\* rtde_->connect(); negotiateProtocolVersion(); setupRecipes(frequency), which
\* sends the output recipe (the caller's variables, or the default list);
\* sendStart(): a fresh socket, streaming.  The recipe's contents are not
\* modelled.
ConnectAndStart ==
    /\ session' = "STARTED"
    /\ link' = "up"
    /\ conn' = conn + 1

\* A new boost::thread running receiveCallback() becomes th_.  The previous
\* boost::thread object is released; if that thread is still running it is
\* detached (boost's default), not joined.
StartReceiveThread ==
    LET t == Cardinality(Spawned) + 1
    IN  /\ pc' = [pc EXCEPT ![t] = "check"]
        /\ th' = t

Init ==
    /\ session = "DISCONNECTED"
    /\ link = "down"
    /\ conn = 0
    /\ snapshot = 0
    /\ inflight = <<>>
    /\ stale = {}
    /\ stop_thread = FALSE
    /\ th = NoThread
    /\ pc = [t \in Threads |-> "unborn"]
    /\ sock = [t \in Threads |-> 0]
    /\ upc = "construct"
    /\ got = 0

-----------------------------------------------------------------------------
(* The user thread.                                                        *)

\* RTDEReceiveInterface::RTDEReceiveInterface: connect, set up, start, create
\* robot_state_ and the first receive thread, then sleep 10 ms.  The sleep
\* does not wait for the first frame.
Construct ==
    /\ upc = "construct"
    /\ ConnectAndStart
    /\ StartReceiveThread
    /\ upc' = "idle"
    /\ UNCHANGED <<snapshot, inflight, stale, stop_thread, sock, got>>

\* disconnect(), first statement: stop_thread = true; th_->interrupt().
\* A thread blocked in a socket read is not at a boost interruption point,
\* so interrupt() does not wake it.
Disconnect ==
    /\ upc = "idle"
    /\ stop_thread' = TRUE
    /\ upc' = "join"
    /\ UNCHANGED <<session, link, conn, snapshot, inflight, stale, th, pc, sock, got>>

\* th_->join() returns once th_ has left receiveCallback().
JoinReturns ==
    /\ upc = "join"
    /\ pc[th] = "done"
    /\ upc' = "close"
    /\ UNCHANGED <<session, link, conn, snapshot, inflight, stale, stop_thread, th, pc, sock, got>>

\* if (rtde_->isConnected()) rtde_->disconnect(); then sleep 500 ms.
CloseSession ==
    /\ upc = "close"
    /\ session' = "DISCONNECTED"
    /\ upc' = "idle"
    /\ UNCHANGED <<link, conn, snapshot, inflight, stale, stop_thread, th, pc, sock, got>>

\* reconnect(), up to sendStart().  The user calls it after isConnected()
\* has reported the loss of the connection.
ReconnectStart ==
    /\ upc = "idle"
    /\ ~IsConnected
    /\ Cardinality(Spawned) < MaxThreads
    /\ ConnectAndStart
    /\ upc' = "reset"
    /\ UNCHANGED <<snapshot, inflight, stale, stop_thread, th, pc, sock, got>>

\* reconnect(): stop_thread = false.
ReconnectClearStop ==
    /\ upc = "reset"
    /\ stop_thread' = FALSE
    /\ upc' = "spawn"
    /\ UNCHANGED <<session, link, conn, snapshot, inflight, stale, th, pc, sock, got>>

\* reconnect(): th_ = a new thread; sleep 10 ms; return isConnected().
ReconnectSpawn ==
    /\ upc = "spawn"
    /\ StartReceiveThread
    /\ upc' = "idle"
    /\ UNCHANGED <<session, link, conn, snapshot, inflight, stale, stop_thread, sock, got>>

\* getTimestamp(), getActualQ(), ... getStandardAnalogOutput1(): each returns
\* a field of robot_state_, whichever package was decoded into it last.
Get ==
    /\ upc = "idle"
    /\ got' = snapshot
    /\ UNCHANGED <<session, link, conn, snapshot, inflight, stale, stop_thread, th, pc, sock, upc>>

\* getDigitalOutState(output_id): std::bitset<64>::test(output_id) throws
\* std::out_of_range for output_id >= 64 (output_id is a uint8_t).
GetDigitalOutState(output_id) ==
    /\ upc = "idle"
    /\ got' = IF output_id < 64 THEN snapshot ELSE Thrown
    /\ UNCHANGED <<session, link, conn, snapshot, inflight, stale, stop_thread, th, pc, sock, upc>>

-----------------------------------------------------------------------------
(* A receive thread: receiveCallback().                                    *)

\* Mutant: the loop never tests stop_thread.
LoopTestIgnoresStop(t) ==
    /\ pc[t] = "check"
    /\ pc' = [pc EXCEPT ![t] = "recv"]
    /\ sock' = [sock EXCEPT ![t] = conn]
    /\ UNCHANGED <<session, link, conn, snapshot, inflight, stale, stop_thread, th, upc, got>>

\* while (!stop_thread): the loop test, then rtde_->receiveData() starts a
\* blocking read on the socket rtde_ holds at that moment.
LoopTest(t) ==
    /\ pc[t] = "check"
    /\ IF stop_thread
         THEN /\ pc' = [pc EXCEPT ![t] = "done"]
              /\ UNCHANGED sock
         ELSE /\ pc' = [pc EXCEPT ![t] = "recv"]
              /\ sock' = [sock EXCEPT ![t] = conn]
    /\ UNCHANGED <<session, link, conn, snapshot, inflight, stale, stop_thread, th, upc, got>>

\* receiveData(robot_state_), first half: the next output package is read
\* from the socket.  It is newer than every package already read.
ReadFrame(t) ==
    /\ pc[t] = "recv"
    /\ Streaming(sock[t])
    /\ inflight' = Append(inflight, t)
    /\ pc' = [pc EXCEPT ![t] = "apply"]
    /\ UNCHANGED <<session, link, conn, snapshot, stale, stop_thread, th, sock, upc, got>>

\* The threads that read a package before thread t read its own.
ReadBefore(t) ==
    LET k == CHOOSE i \in 1..Len(inflight) : inflight[i] = t
    IN  {inflight[i] : i \in 1..(k - 1)}

\* receiveData(robot_state_), second half: the package is decoded into
\* robot_state_; a package that another thread still holds, read earlier,
\* is now older than robot_state_.
ApplyFrame(t) ==
    /\ pc[t] = "apply"
    /\ snapshot' = sock[t]
    /\ stale' = (stale \cup ReadBefore(t)) \ {t}
    /\ inflight' = SelectSeq(inflight, LAMBDA u : u # t)
    /\ pc' = [pc EXCEPT ![t] = "check"]
    /\ UNCHANGED <<session, link, conn, stop_thread, th, sock, upc, got>>

\* A read of the current, started socket whose peer vanished unseen blocks:
\* neither a frame nor an error arrives until the socket is closed.
ReadBlocked(t) == session = "STARTED" /\ link = "silent" /\ sock[t] = conn

\* receiveData throws: the socket broke, or was closed or replaced.
ReceiveError(t) ==
    /\ pc[t] = "recv"
    /\ ~Streaming(sock[t])
    /\ ~ReadBlocked(t)
    /\ pc' = [pc EXCEPT ![t] = "handle"]
    /\ UNCHANGED <<session, link, conn, snapshot, inflight, stale, stop_thread, th, sock, upc, got>>

\* Mutant: the catch block leaves rtde_ connected.
HandleErrorKeepsSession(t) ==
    /\ pc[t] = "handle"
    /\ pc' = [pc EXCEPT ![t] = "stop"]
    /\ UNCHANGED <<session, link, conn, snapshot, inflight, stale, stop_thread, th, sock, upc, got>>

\* catch: if (rtde_->isConnected()) rtde_->disconnect(); it closes whatever
\* connection rtde_ holds now.
HandleError(t) ==
    /\ pc[t] = "handle"
    /\ session' = "DISCONNECTED"
    /\ pc' = [pc EXCEPT ![t] = "stop"]
    /\ UNCHANGED <<link, conn, snapshot, inflight, stale, stop_thread, th, sock, upc, got>>

\* catch: stop_thread = true; back to the loop test.
SetStop(t) ==
    /\ pc[t] = "stop"
    /\ stop_thread' = TRUE
    /\ pc' = [pc EXCEPT ![t] = "check"]
    /\ UNCHANGED <<session, link, conn, snapshot, inflight, stale, th, sock, upc, got>>

-----------------------------------------------------------------------------
(* The controller side.                                                    *)

\* The TCP connection breaks (controller restart: reads fail), or, where
\* HalfOpen, the peer vanishes without a reset (cable pulled).
LinkFails ==
    /\ session = "STARTED"
    /\ link = "up"
    /\ link' \in {"down"} \cup (IF HalfOpen THEN {"silent"} ELSE {})
    /\ UNCHANGED <<session, conn, snapshot, inflight, stale, stop_thread, th, pc, sock, upc, got>>

ThreadStep(t) ==
    \/ LoopTest(t)
    \/ ReadFrame(t)
    \/ ApplyFrame(t)
    \/ ReceiveError(t)
    \/ HandleError(t)
    \/ SetStop(t)

UserStep ==
    \/ Construct
    \/ Disconnect
    \/ JoinReturns
    \/ CloseSession
    \/ ReconnectStart
    \/ ReconnectClearStop
    \/ ReconnectSpawn
    \/ Get
    \/ \E id \in {0, 64} : GetDigitalOutState(id)

Next ==
    \/ UserStep
    \/ \E t \in Threads : ThreadStep(t)
    \/ LinkFails

\* Threads are scheduled by the OS and the controller streams at a fixed
\* rate, so every thread step is weakly fair.  The user finishes a call it
\* has begun, but need not begin one.
Fairness ==
    /\ \A t \in Threads : WF_vars(ThreadStep(t))
    /\ WF_vars(Construct)
    /\ WF_vars(JoinReturns)
    /\ WF_vars(CloseSession)
    /\ WF_vars(ReconnectClearStop)
    /\ WF_vars(ReconnectSpawn)

Spec == Init /\ [][Next]_vars /\ Fairness

-----------------------------------------------------------------------------
(* Properties.                                                             *)

\* Packages are decoded into robot_state_ in the order they were read from
\* the socket (spec 5): no receive thread decodes a package older than the
\* one robot_state_ already holds.  Two threads reading the same socket
\* break this.
SnapshotInOrder ==
    [][\A t \in Threads : pc[t] = "apply" /\ pc'[t] = "check" => t \notin stale]_vars

\* Once the session is started and the link up with the user idle (after the
\* constructor or reconnect() returned), robot_state_ eventually holds a
\* package of the current connection, unless the connection is lost
\* (spec 8, scenario 6: snapshot updates resume after reconnect()).
SnapshotResumes ==
    (upc = "idle" /\ IsConnected /\ link = "up")
        ~> (snapshot = conn \/ ~IsConnected \/ link = "down")

\* A broken connection that a receive thread is reading is eventually
\* reported by isConnected(): receiveCallback's catch disconnects rtde_.
LossDetected ==
    \A t \in Threads :
        (pc[t] = "recv" /\ sock[t] = conn /\ link = "down" /\ IsConnected)
            ~> ~IsConnected

\* disconnect() returns: the thread it joins leaves receiveCallback(), which
\* honours stop_thread (spec 4.3) only once its blocked read ends; the socket
\* that would end it is closed after the join (lines 54-58).
DisconnectReturns == (upc = "join") ~> (upc = "idle")

=============================================================================
