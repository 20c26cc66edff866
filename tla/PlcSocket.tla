------------------------------ MODULE PlcSocket ------------------------------
(***************************************************************************)
(* The sockets of platform.c with the thread that uses all of them: the    *)
(* handler of a Modbus PLC, which waits for its socket, is woken through a *)
(* pair of wake-up descriptors by application threads, and connects again  *)
(* when the peer is gone.                                                  *)
(*                                                                         *)
(* Bytes are counted in units; a packet has Packet of them.  What the      *)
(* packets mean is the business of Modbus.tla.                             *)
(***************************************************************************)
EXTENDS Naturals, FiniteSets, FiniteSetsExt

CONSTANTS
  Systems,    \* subset of {"posix", "windows"}
  Packet,     \* units of a packet
  MaxCalls,   \* bound: operations started by the application
  MaxFaults   \* bound: failures of the network and of system calls

SocketAssumption == /\ Systems \subseteq {"posix", "windows"}
                    /\ Packet \in Nat \ {0}
                    /\ {MaxCalls, MaxFaults} \subseteq Nat

VARIABLES
  os,       \* the platform
  sock,     \* the descriptors in the fields of plc->sock, if it has one
  open,     \* the open descriptors of the process
  winsock,  \* WSAStartup() calls not undone yet
  net,      \* the connection: "none", "pending", "up", "eof", "reset"
  inbox,    \* units received and not read
  woken,    \* whether something is in the wake-up channel
  owed,     \* units the peer has yet to send
  state,    \* plc->state, or "STOPPED"
  ticked,   \* the tags have had their turn, plc->state is next
  ready,    \* plc->flags.request_ready
  have,     \* plc->read_data_len
  left,     \* units of the request still to be written
  work,     \* an operation was started and has no request yet
  caller,   \* where the application is
  calls, faults

link    == <<net, inbox, owed>>
handler == <<state, ticked, ready, have, left>>
app     == <<caller, calls>>
vars    == <<os, sock, open, winsock, link, woken, handler, work, app, faults>>

NoSocket == {}
Field   == {"fd", "wake_read", "wake_write"}
IsOpen  == "fd" \in sock
States  == {"CONNECT_START", "CONNECT_WAIT", "READY", "SEND", "RECEIVE", "ERR_WAIT", "STOPPED"}

Init ==
  /\ os \in Systems
  /\ sock = NoSocket /\ open = {"stdin"} /\ winsock = 0
  /\ net = "none" /\ inbox = 0 /\ woken = FALSE /\ owed = 0
  /\ state = "CONNECT_START" /\ ticked = FALSE /\ ready = FALSE /\ have = 0 /\ left = 0
  /\ work = FALSE /\ caller = "idle" /\ calls = 0 /\ faults = 0

Fault   == faults < MaxFaults /\ faults' = faults + 1
NoFault == UNCHANGED faults

-----------------------------------------------------------------------------
(* socket_create(), socket_connect_tcp_start() and socket_destroy() *)

(* Mutant of Destroyed: one end of the wake-up channel is forgotten. *)
DestroyedHalf == open \ {"fd", "wake_read"}

(* What socket_destroy() leaves open *)
Destroyed == open \ sock

(* On Windows socket_create() and socket_destroy() start Winsock and shut  *)
(* it down.                                                                *)
Started == IF os = "windows" THEN winsock + 1 ELSE winsock
Ended   == IF os = "windows" THEN winsock - 1 ELSE winsock

(* socket_destroy() and the new state of the handler *)
Destroy(next) ==
  /\ sock' = NoSocket /\ open' = Destroyed /\ winsock' = Ended
  /\ net' = "none" /\ inbox' = 0 /\ owed' = 0 /\ woken' = FALSE
  /\ state' = next

(* A failed sock_create_event_wakeup_channel() closes what it has opened.  *)
(* On POSIX, when there is no pair of sockets at all, that is descriptor   *)
(* zero, which its array was set to.                                       *)
PosixChannelFails   == {open, open \ {"stdin"}}
WindowsChannelFails == {open}
ChannelFails == IF os = "posix" THEN PosixChannelFails ELSE WindowsChannelFails

(* socket_connect_tcp_start(): the connection and the handler's next state *)
Connecting == {<<"up", "READY">>, <<"pending", "CONNECT_WAIT">>}

(* A turn of the handler in state "from" *)
Turn(from) == state = from /\ ticked /\ ticked' = FALSE
Outside    == UNCHANGED <<os, work, app>>

(* connect_plc(): a socket without a channel, or whose connection cannot   *)
(* be started, is destroyed again.                                         *)
ConnectStart ==
  /\ Turn("CONNECT_START")
  /\ \/ /\ sock' = Field /\ open' = open \cup Field /\ winsock' = Started
        /\ \E c \in Connecting : net' = c[1] /\ state' = c[2]
        /\ ready' = FALSE /\ have' = 0 /\ left' = 0
        /\ NoFault
     \/ /\ Fault /\ state' = "ERR_WAIT"
        /\ open' \in ChannelFails
        /\ UNCHANGED <<sock, winsock, net, ready, have, left>>
  /\ UNCHANGED <<inbox, woken, owed>> /\ Outside

(* socket_connect_tcp_check() *)
ConnectCheck ==
  /\ Turn("CONNECT_WAIT")
  /\ \/ net = "up" /\ state' = "READY" /\ UNCHANGED <<sock, open, winsock, link, woken>>
     \/ net = "pending" /\ UNCHANGED <<sock, open, winsock, link, woken, state>>
     \/ net \in {"eof", "reset"} /\ Destroy("ERR_WAIT")
  /\ NoFault /\ UNCHANGED <<ready, have, left>> /\ Outside

(* The delay after a failure is over. *)
ErrWait ==
  /\ Turn("ERR_WAIT") /\ state' = "CONNECT_START"
  /\ NoFault /\ UNCHANGED <<sock, open, winsock, link, woken, ready, have, left>> /\ Outside

-----------------------------------------------------------------------------
(* socket_wait_event() and socket_wake() *)

(* What select() finds on the descriptors *)
Readable == inbox > 0 \/ net \in {"eof", "reset"}
Writable == ready /\ net \in {"up", "eof", "reset"}

(* Mutant of Events: a readable socket is not looked into. *)
EventsUnseen ==
  (IF woken THEN {"WAKE_UP"} ELSE {}) \cup (IF Readable THEN {"CAN_READ"} ELSE {})
    \cup (IF Writable THEN {"CAN_WRITE"} ELSE {})

(* Mutant of Events: the wake-up channel is not waited for. *)
EventsUnwoken ==
  (IF inbox > 0 \/ net = "reset" THEN {"CAN_READ"} ELSE {})
    \cup (IF net = "eof" /\ inbox = 0 THEN {"DISCONNECT"} ELSE {})
    \cup (IF Writable THEN {"CAN_WRITE"} ELSE {})

(* The events it returns: a readable socket without a byte is a peer that  *)
(* has closed; an error shows when the socket is read.                     *)
Events ==
  (IF woken THEN {"WAKE_UP"} ELSE {})
    \cup (IF inbox > 0 \/ net = "reset" THEN {"CAN_READ"} ELSE {})
    \cup (IF net = "eof" /\ inbox = 0 THEN {"DISCONNECT"} ELSE {})
    \cup (IF Writable THEN {"CAN_WRITE"} ELSE {})

(* The wait of the state READY: it ends with an event, which empties the   *)
(* channel; a disconnect goes before a write, and a write before a read.   *)
WaitEvent ==
  /\ Turn("READY") /\ Events # {}
  /\ IF "DISCONNECT" \in Events THEN Destroy("CONNECT_START")
     ELSE /\ state' = CASE "CAN_WRITE" \in Events -> "SEND"
                        [] "CAN_WRITE" \notin Events /\ "CAN_READ" \in Events -> "RECEIVE"
                        [] OTHER -> "READY"
          /\ woken' = (woken /\ "WAKE_UP" \notin Events)
          /\ UNCHANGED <<sock, open, winsock, link>>
  /\ NoFault /\ UNCHANGED <<ready, have, left>> /\ Outside

(* ... or when its time is over. *)
WaitTimeout ==
  /\ Turn("READY") /\ Events = {}
  /\ NoFault /\ UNCHANGED <<sock, open, winsock, link, woken, state, ready, have, left>> /\ Outside

(* socket_wake(), called by wake_plc_thread(): without an open socket the  *)
(* handler does not wait, and nothing is sent.                             *)
Wake == woken' = (woken \/ IsOpen)

-----------------------------------------------------------------------------
(* socket_write() and socket_read() *)

Lost == ready' = FALSE /\ have' = 0 /\ left' = 0 /\ Destroy("CONNECT_START")

(* What socket_write() may write: some of the rest, or nothing in time *)
Written == 0 .. left

(* What socket_read() returns: what has come, if it is not more than what  *)
(* is asked for, or nothing when nothing came in time or the peer closed   *)
Received == Min({inbox, Packet - have})

(* send_request(): a peer that has closed may show as an error. *)
SocketWrite ==
  /\ Turn("SEND")
  /\ \/ /\ net \in {"up", "eof"}
        /\ \E n \in Written :
             /\ left' = left - n
             /\ IF n = left THEN ready' = FALSE /\ state' = "READY"
                                 /\ owed' = IF net = "up" THEN owed + Packet ELSE owed
                            ELSE UNCHANGED <<ready, state, owed>>
        /\ UNCHANGED <<sock, open, winsock, net, inbox, woken, have>>
     \/ net \in {"eof", "reset"} /\ Lost
  /\ NoFault /\ Outside

(* receive_response(): a read of nothing is no error, and leaves the       *)
(* handler in this state.                                                  *)
SocketRead ==
  /\ Turn("RECEIVE")
  /\ \/ /\ inbox > 0 \/ net # "reset"
        /\ inbox' = inbox - Received /\ have' = have + Received
        /\ state' = IF have' = Packet THEN "READY" ELSE "RECEIVE"
        /\ UNCHANGED <<sock, open, winsock, net, woken, owed, ready, left>>
     \/ inbox = 0 /\ net = "reset" /\ Lost
  /\ NoFault /\ Outside

-----------------------------------------------------------------------------
Terminating == caller \in {"terminate", "join", "done"}

(* modbus_plc_handler(): the tags have their turn, where a complete packet *)
(* is taken or thrown away, and a started operation gets its request; then *)
(* the code for the state runs.                                            *)
TickleTags ==
  /\ ~ticked /\ state # "STOPPED" /\ ~Terminating
  /\ ticked' = TRUE
  /\ have' = IF have = Packet THEN 0 ELSE have
  /\ IF work /\ ~ready /\ state = "READY"
       THEN work' = FALSE /\ ready' = TRUE /\ left' = Packet
       ELSE UNCHANGED <<work, ready, left>>
  /\ UNCHANGED <<os, sock, open, winsock, link, woken, state, app, faults>>

Stopped ==
  /\ ~ticked /\ Terminating /\ state # "STOPPED"
  /\ state' = "STOPPED"
  /\ UNCHANGED <<os, sock, open, winsock, link, woken, ticked, ready, have, left, work, app, faults>>

Step == ConnectStart \/ ConnectCheck \/ ErrWait \/ WaitEvent \/ SocketWrite \/ SocketRead

-----------------------------------------------------------------------------
(* The application: an operation is started, and then the handler is woken *)

Start ==
  /\ caller = "idle" /\ calls < MaxCalls
  /\ work' = TRUE /\ calls' = calls + 1 /\ caller' = "wake"
  /\ UNCHANGED <<os, sock, open, winsock, link, woken, handler, faults>>

StartWake ==
  /\ caller = "wake" /\ caller' = "idle"
  /\ Wake
  /\ UNCHANGED <<os, sock, open, winsock, link, handler, work, calls, faults>>

(* modbus_plc_destructor(): the flag, the wake-up, the join, the socket *)
Terminate ==
  /\ caller = "idle" /\ caller' = "terminate"
  /\ UNCHANGED <<os, sock, open, winsock, link, woken, handler, work, calls, faults>>

TerminateWake ==
  /\ caller = "terminate" /\ caller' = "join"
  /\ Wake
  /\ UNCHANGED <<os, sock, open, winsock, link, handler, work, calls, faults>>

Join ==
  /\ caller = "join" /\ state = "STOPPED"
  /\ caller' = "done"
  /\ IF sock # NoSocket THEN Destroy("STOPPED")
                    ELSE UNCHANGED <<sock, open, winsock, link, woken, state>>
  /\ UNCHANGED <<os, ticked, ready, have, left, work, calls, faults>>

-----------------------------------------------------------------------------
(* The network *)

Quiet == UNCHANGED <<os, sock, open, winsock, woken, handler, work, app>>

Establish == net = "pending" /\ net' = "up" /\ NoFault /\ UNCHANGED <<inbox, owed>> /\ Quiet

Deliver ==
  /\ net = "up" /\ owed > 0
  /\ \E n \in 1..owed : inbox' = inbox + n /\ owed' = owed - n
  /\ NoFault /\ UNCHANGED net /\ Quiet

(* The peer closes or resets the connection, or refuses it. *)
PeerGone ==
  /\ net \in {"pending", "up"} /\ Fault
  /\ net' \in {"eof", "reset"} /\ owed' = 0
  /\ UNCHANGED inbox /\ Quiet

-----------------------------------------------------------------------------
Application == StartWake \/ TerminateWake \/ Join

Next ==
  \/ TickleTags \/ Stopped \/ Step \/ WaitTimeout
  \/ Start \/ Terminate \/ Application
  \/ Establish \/ Deliver \/ PeerGone

Spec == Init /\ [][Next]_vars

(* The handler and the calls of the application go on, connections are     *)
(* made or refused, and a peer that has begun a packet ends it or closes.  *)
(* The timeout of the wait is not needed.                                  *)
Fairness ==
  /\ WF_vars(TickleTags \/ Stopped) /\ WF_vars(Step)
  /\ SF_vars(ConnectStart /\ state' = "READY") /\ SF_vars(SocketWrite /\ left' = 0)
  /\ WF_vars(Application)
  /\ WF_vars(Establish) /\ WF_vars(Deliver)

FairSpec == Spec /\ Fairness

-----------------------------------------------------------------------------
(* When there is no socket every descriptor it had is closed, and Winsock  *)
(* is shut down as often as it was started: reconnecting leaks nothing,    *)
(* whichever call failed.  Only on POSIX may the standard input be closed. *)
NothingOpen ==
  /\ sock = NoSocket => open \subseteq {"stdin"} /\ winsock = 0
  /\ os = "windows" => "stdin" \in open

(* The peer closes between two packets. *)
WholePackets == [](net = "eof" => (inbox + have) % Packet = 0)

(* A connection that the peer has closed between two packets is noticed    *)
(* and given up, without any request being sent on it.                     *)
CloseNoticed == WholePackets => (net = "eof" ~> net # "eof")

(* An operation that the application starts gets its request, and a        *)
(* handler that is told to stop stops, without help from the timeout of    *)
(* the wait: no wake-up is lost, whenever it comes.                        *)
WakeSeen == WholePackets => /\ work ~> (~work \/ Terminating)
                            /\ Terminating ~> caller = "done"

(* A connection that the peer has closed is noticed and given up. *)
EveryCloseNoticed == net = "eof" ~> net # "eof"

=============================================================================
