----------------------------- MODULE RtspServer -----------------------------
(***************************************************************************)
(* The RTSP server of wifi_audio: one thread per connection (RtspClient in *)
(* rtsp_server.cpp), the socket server's thread that accepts and deletes   *)
(* the connections, the encoder thread that sends every packet to the      *)
(* playing list of the RTP engine (rtp.cpp), and the CLI that lists it.    *)
(*                                                                         *)
(* The engine's mutex guards the playing list.  push and remove hold it    *)
(* for one step; the encoder holds it for a whole visit, over the send to  *)
(* each client, so its steps are apart.                                    *)
(***************************************************************************)
EXTENDS RtspRequest, FiniteSets

CONSTANTS Conns,       \* connections the server may accept, each once
          Objs,        \* addresses an RTP_Client may be allocated at
          NoClient,    \* the null RTP_Client pointer
          Requests,    \* requests the peers may send
          Repeats,     \* peers PLAY while playing / SETUP when set up
          UdpFails     \* Socket::open_udp may return a null pointer

ASSUME NoClientAssumption == NoClient \notin Objs
ASSUME RequestsAssumption == Requests \subseteq Request
ASSUME RepeatsAssumption  == Repeats \subseteq {"SETUP", "PLAY"}
ASSUME UdpFailsAssumption == UdpFails \in BOOLEAN

VARIABLES pc,        \* where each connection's thread is in RtspClient::run
          sess,      \* Session::state of each connection
          cmd,       \* the command its thread is carrying out
          cur,       \* RTSP_Handler::rtp_client
          live,      \* the RTP_Clients allocated and not yet deleted
          playing,   \* RTP_Engine::playing, the members of the list
          looped,    \* a node was pushed twice: the list has no end
          enc,       \* where the encoder thread is in audio_copy
          todo,      \* the clients its visit has still to send to
          held,      \* the client the CLI got from get_client
          killed,    \* SocketServer::kill has been called
          crashed    \* an ASSERT failed or a null pointer was read

conn == <<pc, sess, cmd, cur>>
engine == <<playing, looped>>
encoder == <<enc, todo>>
vars == <<conn, live, engine, encoder, held, killed, crashed>>

Places == {"idle", "recv", "work", "post", "exit", "ended", "deleted"}
Effects == {"SETUP", "PLAY", "PAUSE", "TEARDOWN", "KILL"}

TypeOK ==
    /\ pc \in [Conns -> Places]
    /\ sess \in [Conns -> States]
    /\ cmd \in [Conns -> Effects \cup {"UNKNOWN"}]
    /\ cur \in [Conns -> Objs \cup {NoClient}]
    /\ live \subseteq Objs
    /\ playing \subseteq Objs
    /\ looped \in BOOLEAN
    /\ enc \in {"wait", "encode", "visit"}
    /\ todo \subseteq Objs
    /\ held \in Objs \cup {NoClient}
    /\ killed \in BOOLEAN
    /\ crashed \in BOOLEAN

Init ==
    /\ pc = [c \in Conns |-> "idle"]
    /\ sess = [c \in Conns |-> "INIT"]
    /\ cmd = [c \in Conns |-> "UNKNOWN"]
    /\ cur = [c \in Conns |-> NoClient]
    /\ live = {}
    /\ playing = {}
    /\ looped = FALSE
    /\ enc = "wait"
    /\ todo = {}
    /\ held = NoClient
    /\ killed = FALSE
    /\ crashed = FALSE

Unlocked == enc # "visit"

At(c, place) == ~crashed /\ pc[c] = place
Goto(c, place) == pc' = [pc EXCEPT ![c] = place]

Crash == /\ crashed' = TRUE
         /\ UNCHANGED <<conn, live, engine, encoder, held, killed>>

-----------------------------------------------------------------------------
(* List::push and List::remove on the playing list.  A second push of a    *)
(* node leaves the list without an end; what a remove makes of such a list *)
(* depends on where the node is.                                           *)
PushUnlocked(o) == /\ playing' = playing \cup {o}       \* variant
                   /\ looped' = (looped \/ o \in playing)

Push(o) == /\ Unlocked
           /\ playing' = playing \cup {o}
           /\ looped' = (looped \/ o \in playing)

RemoveUnlocked(o) == playing' = playing \ {o} /\ UNCHANGED looped  \* variant

Remove(o) ==
    IF o = NoClient THEN UNCHANGED engine
    ELSE /\ Unlocked
         /\ IF ~looped THEN playing' = playing \ {o} /\ UNCHANGED looped
            ELSE /\ playing' \in {playing, playing \ {o}}
                 /\ looped' \in BOOLEAN
                 /\ looped' => playing' # {}

-----------------------------------------------------------------------------
(* The socket server's thread.                                             *)

Accept(c) ==
    /\ At(c, "idle") /\ ~killed
    /\ Goto(c, "recv")
    /\ UNCHANGED <<sess, cmd, cur, live, engine, encoder, held, killed, crashed>>

ReapLeaks(c) ==                                       \* variant
    /\ At(c, "ended")
    /\ Goto(c, "deleted")
    /\ UNCHANGED <<sess, cmd, cur, live, engine, encoder, held, killed, crashed>>

ReapUnlessKilled(c) == ~killed /\ ReapLeaks(c)        \* variant

Reap(c) ==
    /\ At(c, "ended")
    /\ Goto(c, "deleted")
    /\ live' = live \ {cur[c]}
    /\ UNCHANGED <<sess, cmd, cur, engine, encoder, held, killed, crashed>>

-----------------------------------------------------------------------------
(* The thread of a connection.                                             *)

(* What the peers may send: everything in Requests, less what Repeats bars *)
Sends(c, r) ==
    /\ r.method = "PLAY" /\ sess[c] = "PLAY" => "PLAY" \in Repeats
    /\ r.method = "SETUP" /\ cur[c] # NoClient => "SETUP" \in Repeats

(* The bound on allocation: a SETUP is sent while there is an address left *)
(* for the client of every SETUP under way.                                *)
HeapBound(r) ==
    r.method = "SETUP" =>
        Cardinality({d \in Conns : pc[d] = "work" /\ cmd[d] = "SETUP"})
            < Cardinality(Objs \ live)

(* A request is received, parsed and answered: each command flushes its    *)
(* response before it acts.  Refusals, OPTIONS and DESCRIBE end here.      *)
Receive(c, r) ==
    /\ At(c, "recv") /\ Sends(c, r) /\ HeapBound(r)
    /\ IF Faults(r) THEN Crash
       ELSE /\ Command(sess[c], r) \in Effects
            /\ cmd' = [cmd EXCEPT ![c] = r.method]
            /\ Goto(c, "work")
            /\ UNCHANGED <<sess, cur, live, engine, encoder, held, killed, crashed>>

Doing(c, cmds) == At(c, "work") /\ cmd[c] \in cmds

NewClient(c, allocated) ==
    \E o \in Objs \ live : /\ live' = allocated \cup {o}
                          /\ cur' = [cur EXCEPT ![c] = o]

SetupDeletesOld(c) ==                                 \* variant
    /\ Doing(c, {"SETUP"})
    /\ NewClient(c, live \ {cur[c]})
    /\ Goto(c, "post")
    /\ UNCHANGED <<sess, cmd, engine, encoder, held, killed, crashed>>

(* RTSP_Handler::setup after its response; the destructor will delete only *)
(* the client it leaves in rtp_client.                                     *)
SetupClient(c) ==
    /\ Doing(c, {"SETUP"})
    /\ Remove(cur[c])
    /\ NewClient(c, live)
    /\ Goto(c, "post")
    /\ UNCHANGED <<sess, cmd, encoder, held, killed, crashed>>

SetupFails(c) == Doing(c, {"SETUP"}) /\ UdpFails /\ Crash

(* RTSP_Handler::play asserts that there is a client.                      *)
PlayClient(c) ==
    /\ Doing(c, {"PLAY"})
    /\ IF cur[c] = NoClient THEN Crash
       ELSE /\ Push(cur[c])
            /\ Goto(c, "post")
            /\ UNCHANGED <<sess, cmd, cur, live, encoder, held, killed, crashed>>

RemoveNotInPause(c) ==                                \* variant
    /\ Doing(c, {"PAUSE", "TEARDOWN", "KILL"})
    /\ IF cmd[c] = "PAUSE" THEN UNCHANGED engine ELSE Remove(cur[c])
    /\ Goto(c, "post")
    /\ UNCHANGED <<sess, cmd, cur, live, encoder, held, killed, crashed>>

(* RTSP_Handler::pause and teardown after their responses, and terminate.  *)
RemoveClient(c) ==
    /\ Doing(c, {"PAUSE", "TEARDOWN", "KILL"})
    /\ Remove(cur[c])
    /\ Goto(c, "post")
    /\ UNCHANGED <<sess, cmd, cur, live, encoder, held, killed, crashed>>

(* Session::process once the handler has returned, and the loop's test.    *)
Post(c) ==
    /\ At(c, "post")
    /\ sess' = [sess EXCEPT ![c] = NextState(@, cmd[c])]
    /\ Goto(c, IF sess'[c] = "DEAD" THEN "exit" ELSE "recv")
    /\ cmd' = [cmd EXCEPT ![c] = "UNKNOWN"]
    /\ killed' = (killed \/ cmd[c] = "KILL")
    /\ UNCHANGED <<cur, live, engine, encoder, held, crashed>>

DisconnectReturns(c) ==                               \* variant
    /\ At(c, "recv")
    /\ Goto(c, "ended")
    /\ UNCHANGED <<sess, cmd, cur, live, engine, encoder, held, killed, crashed>>

(* recv returns nothing or an error: the peer has gone.                    *)
Disconnect(c) ==
    /\ At(c, "recv")
    /\ Goto(c, "exit")
    /\ UNCHANGED <<sess, cmd, cur, live, engine, encoder, held, killed, crashed>>

Terminate(c) ==
    /\ At(c, "exit")
    /\ Remove(cur[c])
    /\ Goto(c, "ended")
    /\ UNCHANGED <<sess, cmd, cur, live, encoder, held, killed, crashed>>

ThreadStep(c) == \/ SetupClient(c) \/ SetupFails(c) \/ PlayClient(c)
                 \/ RemoveClient(c) \/ Post(c) \/ Terminate(c)

-----------------------------------------------------------------------------
(* The encoder thread: audio_copy and RTP_Engine::send.                    *)

(* A block of audio arrives; has_clients reads the list without the mutex. *)
EncTake ==
    /\ ~crashed /\ enc = "wait" /\ playing # {}
    /\ enc' = "encode"
    /\ UNCHANGED <<conn, live, engine, todo, held, killed, crashed>>

EncLockPastEnd ==                                     \* variant
    /\ ~crashed /\ enc = "encode"
    /\ enc' = "visit"
    /\ todo' = playing \cup {NoClient}
    /\ UNCHANGED <<conn, live, engine, held, killed, crashed>>

(* The engine's send takes the mutex and visits the list as it is now.     *)
EncLock ==
    /\ ~crashed /\ enc = "encode"
    /\ enc' = "visit"
    /\ todo' = playing
    /\ UNCHANGED <<conn, live, engine, held, killed, crashed>>

(* send_packet to one client; a list without an end is never done.         *)
EncSend(o) ==
    /\ ~crashed /\ enc = "visit" /\ o \in todo
    /\ todo' = IF looped THEN todo ELSE todo \ {o}
    /\ UNCHANGED <<conn, live, engine, enc, held, killed, crashed>>

EncUnlock ==
    /\ ~crashed /\ enc = "visit" /\ todo = {}
    /\ enc' = "wait"
    /\ UNCHANGED <<conn, live, engine, todo, held, killed, crashed>>

Encode == EncTake \/ EncLock \/ (\E o \in Objs : EncSend(o)) \/ EncUnlock

-----------------------------------------------------------------------------
(* The CLI's "rtp" command: get_client holds the mutex, the print that     *)
(* reads the client's counters does not.                                   *)

CliFetch(o) ==
    /\ ~crashed /\ Unlocked /\ held = NoClient /\ o \in playing
    /\ held' = o
    /\ UNCHANGED <<conn, live, engine, encoder, killed, crashed>>

CliPrint ==
    /\ ~crashed /\ held # NoClient
    /\ held' = NoClient
    /\ UNCHANGED <<conn, live, engine, encoder, killed, crashed>>

-----------------------------------------------------------------------------
Next == \/ \E c \in Conns : \/ Accept(c) \/ Reap(c) \/ Disconnect(c)
                            \/ ThreadStep(c)
                            \/ \E r \in Requests : Receive(c, r)
        \/ Encode
        \/ \E o \in Objs : CliFetch(o)
        \/ CliPrint

Spec == Init /\ [][Next]_vars

(* Every thread keeps running and the source keeps delivering blocks; a    *)
(* thread that waits for the mutex gets it, for the encoder lets go of it  *)
(* after each packet and then waits for the next block of audio.  Nothing  *)
(* obliges a peer to send or to leave.                                     *)
Fairness == /\ WF_vars(Encode)
            /\ \A c \in Conns : SF_vars(ThreadStep(c)) /\ WF_vars(Reap(c))

FairSpec == Spec /\ Fairness

-----------------------------------------------------------------------------
Current(c) == cur[c] # NoClient /\ pc[c] # "deleted"

(* The encoder never sends to, nor follows the next pointer of, a client   *)
(* that the socket server's thread has deleted.                            *)
NoUseAfterFree == playing \cup todo \subseteq live

(* The encoder holds the mutex over the whole visit, so a visit sends only *)
(* to clients still on the list: after the PAUSE or TEARDOWN of a client   *)
(* has been carried out, no packet of an older visit reaches it.           *)
VisitIsCurrent == todo \subseteq playing

(* Each client on the list belongs to one connection, which has not ended. *)
OwnedByOne ==
    \A o \in playing :
        \E c \in Conns : /\ cur[c] = o /\ pc[c] \notin {"ended", "deleted"}
                        /\ \A d \in Conns \ {c} : cur[d] = o => pc[d] = "deleted"

(* rtp.cpp:193 "send the packet to all the clients in PLAY state": between *)
(* two requests a connection in state PLAY has its client on the list.     *)
PlayIsOnTheList ==
    \A c \in Conns : pc[c] = "recv" /\ sess[c] = "PLAY" => cur[c] \in playing

(* The converse: nobody is sent packets who has not asked for them or who  *)
(* has paused, in the state his last response told him of.                 *)
OnlyPlayIsOnTheList ==
    \A c \in Conns : pc[c] = "recv" /\ cur[c] \in playing => sess[c] = "PLAY"

(* The inductive strengthening of the four invariants above, for peers     *)
(* that do not PLAY while they play.                                       *)
HoldsLive == \A c \in Conns : Current(c) => cur[c] \in live

NoSharing ==
    \A c, d \in Conns :
        c # d /\ Current(c) /\ cur[c] = cur[d] => pc[d] = "deleted"

Owned == \A o \in playing :
            \E c \in Conns : cur[c] = o /\ pc[c] \notin {"ended", "deleted"}

(* Where a connection can be while its client is on the list.              *)
Listed ==
    \A c \in Conns :
        Current(c) /\ cur[c] \in playing =>
            \/ sess[c] = "PLAY" /\ pc[c] \in {"recv", "work", "exit"}
            \/ pc[c] = "post" /\ cmd[c] = "PLAY"

Phase ==
    \A c \in Conns :
        /\ pc[c] = "idle" => sess[c] = "INIT"
        /\ pc[c] = "recv" => sess[c] # "DEAD"
        /\ pc[c] \in {"work", "post"} /\ cmd[c] = "PLAY" => sess[c] = "READY"

SetUp ==
    \A c \in Conns :
        \/ sess[c] \in {"READY", "PLAY"}
        \/ pc[c] = "post" /\ cmd[c] = "SETUP"
        => cur[c] # NoClient

VisitLocked == (enc # "visit" => todo = {}) /\ todo \subseteq playing

(* Between and during visits, every node of the list is allocated, owned   *)
(* by one connection, and that connection is where its state says.         *)
IInv == /\ TypeOK /\ ~looped
        /\ HoldsLive /\ NoSharing /\ Owned
        /\ Listed /\ Phase /\ SetUp /\ VisitLocked

(* Every allocated RTP_Client is one that a connection's destructor will   *)
(* delete (README: "verify where and when resources are allocated and      *)
(* freed").                                                                *)
NoLeak == live = {cur[c] : c \in {d \in Conns : Current(d)}}

(* The strengthening of NoLeak and PlayIsOnTheList, for peers that send    *)
(* one SETUP each as well.                                                 *)
PoliteInv ==
    /\ NoLeak
    /\ \A c \in Conns :
        /\ pc[c] \in {"recv", "work", "exit"} /\ sess[c] = "PLAY" => cur[c] \in playing
        /\ pc[c] = "post" /\ cmd[c] = "PLAY" => cur[c] \in playing
        /\ pc[c] = "post" /\ sess[c] = "PLAY" => cmd[c] \in {"PAUSE", "TEARDOWN", "KILL"}
        /\ pc[c] = "work" /\ cmd[c] = "SETUP" => cur[c] = NoClient

(* No ASSERT of the code fails and no null pointer is read.                *)
NoAssertFails == ~crashed

(* A command, once answered, is carried out: the thread gets the engine's  *)
(* mutex and is back at recv, or on its way out.                           *)
CommandsComplete ==
    \A c \in Conns : pc[c] = "work" ~> pc[c] \in {"recv", "exit"}

(* A connection whose peer has left, or was torn down, is deleted, and its *)
(* client with it.                                                         *)
EndedIsDeleted ==
    \A c \in Conns : pc[c] = "exit" ~> pc[c] = "deleted" /\ cur[c] \notin playing

(* The engine's promise to the connections, see Multicast.                 *)
OnAir == {c \in Conns : pc[c] # "deleted" /\ cur[c] \in playing}
Due == {c \in Conns : pc[c] # "deleted" /\ cur[c] \in todo}
Gone == {c \in Conns : pc[c] \in {"ended", "deleted"}}

Air == INSTANCE Multicast WITH
          Listeners <- Conns, onAir <- OnAir, due <- Due, gone <- Gone

(* Packet by packet the threads, the mutex and the heap together implement *)
(* the multicast, and every connection on the air keeps being sent to.     *)
ImplementsMulticast == Air!Spec
=============================================================================
