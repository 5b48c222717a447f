-------------------------- MODULE RtspServerProofs --------------------------
(***************************************************************************)
(* What holds of RtspServer for any number of connections, addresses and   *)
(* requests.                                                               *)
(***************************************************************************)
EXTENDS RtspServer, TLAPS

USE DEF conn, engine, encoder

(* The answers of the parser and the session stay within their types.      *)
LEMMA NextStateType ==
    ASSUME NEW s \in States, NEW k \in Effects \cup {"UNKNOWN"}
    PROVE  NextState(s, k) \in States
  BY DEF NextState, States, Effects

(* Every variable keeps its type: in particular every pointer the engine,  *)
(* the sessions and the CLI hold is null or an RTP_Client's address, and   *)
(* no session leaves the four states of RTSP_Session::State.               *)
THEOREM TypeCorrect == Spec => []TypeOK
<1>1. Init => TypeOK
  BY DEF Init, TypeOK, Places, States
<1>2. TypeOK /\ [Next]_vars => TypeOK'
  <2> SUFFICES ASSUME TypeOK, [Next]_vars PROVE TypeOK'
    OBVIOUS
  <2> USE DEF TypeOK, At, Goto, Doing, Unlocked, Crash, Places
  <2>1. ASSUME NEW c \in Conns, Accept(c) PROVE TypeOK'
    BY <2>1 DEF Accept
  <2>2. ASSUME NEW c \in Conns, Reap(c) PROVE TypeOK'
    BY <2>2 DEF Reap
  <2>3. ASSUME NEW c \in Conns, Disconnect(c) PROVE TypeOK'
    BY <2>3 DEF Disconnect
  <2>4. ASSUME NEW c \in Conns, NEW r \in Requests, Receive(c, r) PROVE TypeOK'
    <3>1. CASE Faults(r)
      BY <2>4, <3>1 DEF Receive
    <3>2. CASE ~Faults(r)
      <4>1. r.method \in Effects
        BY <2>4, <3>2 DEF Receive, Command, Effects
      <4>2. QED
        BY <2>4, <3>2, <4>1 DEF Receive
    <3>3. QED
      BY <3>1, <3>2
  <2>5. ASSUME NEW c \in Conns, SetupClient(c) PROVE TypeOK'
    BY <2>5 DEF SetupClient, NewClient, Remove
  <2>6. ASSUME NEW c \in Conns, SetupFails(c) PROVE TypeOK'
    BY <2>6 DEF SetupFails
  <2>7. ASSUME NEW c \in Conns, PlayClient(c) PROVE TypeOK'
    <3>1. CASE cur[c] = NoClient
      BY <2>7, <3>1 DEF PlayClient
    <3>2. CASE cur[c] # NoClient
      BY <2>7, <3>2 DEF PlayClient, Push
    <3>3. QED
      BY <3>1, <3>2
  <2>8. ASSUME NEW c \in Conns, RemoveClient(c) PROVE TypeOK'
    BY <2>8 DEF RemoveClient, Remove
  <2>9. ASSUME NEW c \in Conns, Post(c) PROVE TypeOK'
    BY <2>9, NextStateType DEF Post
  <2>10. ASSUME NEW c \in Conns, Terminate(c) PROVE TypeOK'
    BY <2>10 DEF Terminate, Remove
  <2>11. CASE Encode
    BY <2>11 DEF Encode, EncTake, EncLock, EncSend, EncUnlock
  <2>12. ASSUME NEW o \in Objs, CliFetch(o) PROVE TypeOK'
    BY <2>12 DEF CliFetch
  <2>13. CASE CliPrint
    BY <2>13 DEF CliPrint
  <2>14. CASE UNCHANGED vars
    BY <2>14 DEF vars
  <2>15. QED
    BY <2>1, <2>2, <2>3, <2>4, <2>5, <2>6, <2>7, <2>8, <2>9, <2>10, <2>11,
       <2>12, <2>13, <2>14 DEF Next, ThreadStep
<1>3. QED
  BY <1>1, <1>2, PTL DEF Spec

-----------------------------------------------------------------------------
(* A command takes effect only in a state that permits it.                 *)
LEMMA PlayFromReady ==
    ASSUME NEW s \in States \ {"DEAD"}, NEW r \in Request, ~Faults(r),
           Command(s, r) = "PLAY"
    PROVE  r.method = "PLAY" /\ s \in {"READY", "PLAY"}
<1>1. r.method = "PLAY" /\ Reply(s, r) \in {OK, NoReply}
  BY DEF Command
<1>2. Reply(s, r) = IF LineCode(s, r) # OK THEN LineCode(s, r)
                                           ELSE HandlerCode(r)
  BY <1>1 DEF Reply, Commands
<1>3. LineCode(s, r) = OK
  BY <1>1, <1>2 DEF LineCode, OK, NoReply, NotValidInState, VersionNotSupported
<1>4. s # "INIT"
  BY <1>1, <1>3 DEF LineCode, Allowable, OK, NotValidInState, VersionNotSupported
<1>5. QED
  BY <1>1, <1>4 DEF States

(* A removal by a thread whose list is sound: it waits for the visit to    *)
(* end, takes its own client off and no other.                             *)
LEMMA RemoveSound ==
    ASSUME NEW p, p \subseteq Objs, NEW o \in Objs \cup {NoClient},
           playing = p, ~looped, VisitLocked, Remove(o)
    PROVE  /\ playing' = p \ {o} /\ ~looped'
           /\ todo # {} => playing' = p
<1>1. CASE o = NoClient
  BY <1>1, NoClientAssumption DEF Remove
<1>2. CASE o # NoClient
  BY <1>2 DEF Remove, Unlocked, VisitLocked
<1>3. QED
  BY <1>1, <1>2

(* The state of the connections and the engine's list agree, in every step *)
(* of every interleaving, if no peer sends PLAY while it plays.            *)
THEOREM Invariance == ASSUME "PLAY" \notin Repeats PROVE Spec => []IInv
<1> USE DEF Current
<1>1. Init => IInv
  BY DEF Init, IInv, TypeOK, Places, States, HoldsLive, NoSharing, Owned,
         Listed, Phase, SetUp, VisitLocked
<1>2. IInv /\ TypeOK' /\ [Next]_vars => IInv'
  <2> SUFFICES ASSUME IInv, TypeOK', [Next]_vars PROVE IInv'
    OBVIOUS
  <2>0. /\ TypeOK /\ ~looped /\ HoldsLive /\ NoSharing /\ Owned /\ Listed
        /\ Phase /\ SetUp /\ VisitLocked
    BY DEF IInv
  <2> USE DEF TypeOK, At, Goto, Doing, Unlocked
  <2>c. Crash => IInv'
    BY <2>0 DEF Crash, IInv, HoldsLive, NoSharing, Owned, Listed, Phase, SetUp, VisitLocked
  <2>1. ASSUME NEW c \in Conns, Accept(c) PROVE IInv'
    BY <2>0, <2>1 DEF Accept, IInv, HoldsLive, NoSharing, Owned, Listed, Phase, SetUp, VisitLocked
  <2>2. ASSUME NEW c \in Conns, Reap(c) PROVE IInv'
    BY <2>0, <2>2 DEF Reap, IInv, HoldsLive, NoSharing, Owned, Listed, Phase, SetUp, VisitLocked
  <2>3. ASSUME NEW c \in Conns, Disconnect(c) PROVE IInv'
    BY <2>0, <2>3 DEF Disconnect, IInv, HoldsLive, NoSharing, Owned, Listed, Phase, SetUp, VisitLocked
  <2>4. ASSUME NEW c \in Conns, NEW r \in Requests, Receive(c, r) PROVE IInv'
    <3>1. CASE Faults(r)
      BY <2>4, <2>c, <3>1 DEF Receive
    <3>2. CASE ~Faults(r)
      <4>1. /\ pc[c] = "recv" /\ sess[c] \in States \ {"DEAD"}
            /\ pc' = [pc EXCEPT ![c] = "work"]
            /\ cmd' = [cmd EXCEPT ![c] = r.method]
            /\ Command(sess[c], r) \in Effects
            /\ UNCHANGED <<sess, cur, live, engine, encoder, held, killed, crashed>>
        BY <2>0, <2>4, <3>2 DEF Receive, Phase
      <4>2. r.method = "PLAY" => sess[c] = "READY"
        <5>1. ASSUME r.method = "PLAY" PROVE sess[c] = "READY"
          <6>1. Command(sess[c], r) = "PLAY"
            BY <4>1, <5>1 DEF Command, Effects
          <6>2. sess[c] # "PLAY"
            BY <2>4, <5>1 DEF Receive, Sends
          <6>3. QED
            BY <3>2, <4>1, <6>1, <6>2, PlayFromReady, RequestsAssumption
        <5>2. QED
          BY <5>1
      <4>3. HoldsLive' /\ NoSharing' /\ Owned' /\ VisitLocked'
        BY <2>0, <4>1 DEF HoldsLive, NoSharing, Owned, VisitLocked
      <4>4. Listed'
        BY <2>0, <4>1 DEF Listed
      <4>5. Phase' /\ SetUp'
        BY <2>0, <4>1, <4>2 DEF Phase, SetUp
      <4>6. QED
        BY <2>0, <4>1, <4>3, <4>4, <4>5 DEF IInv
    <3>3. QED
      BY <3>1, <3>2
  <2>5. ASSUME NEW c \in Conns, SetupClient(c) PROVE IInv'
    <3>1. /\ pc[c] = "work" /\ cmd[c] = "SETUP"
          /\ pc' = [pc EXCEPT ![c] = "post"]
          /\ UNCHANGED <<sess, cmd, enc, todo>>
          /\ Remove(cur[c])
      BY <2>5 DEF SetupClient
    <3>2. PICK o \in Objs \ live : /\ live' = live \cup {o}
                                   /\ cur' = [cur EXCEPT ![c] = o]
      BY <2>5 DEF SetupClient, NewClient
    <3>3. /\ playing' = playing \ {cur[c]} /\ ~looped'
          /\ todo # {} => playing' = playing
      BY <2>0, <3>1, RemoveSound
    <3>4. o \notin playing
      BY <2>0, <3>2, NoClientAssumption DEF Owned, HoldsLive
    <3>5. HoldsLive' /\ NoSharing'
      BY <2>0, <3>1, <3>2, NoClientAssumption DEF HoldsLive, NoSharing
    <3>6. Owned'
      BY <2>0, <3>1, <3>2, <3>3 DEF Owned
    <3>7. Listed' /\ Phase' /\ SetUp' /\ VisitLocked'
      BY <2>0, <3>1, <3>2, <3>3, <3>4, NoClientAssumption
         DEF Listed, Phase, SetUp, VisitLocked
    <3>8. QED
      BY <3>3, <3>5, <3>6, <3>7 DEF IInv
  <2>6. ASSUME NEW c \in Conns, SetupFails(c) PROVE IInv'
    BY <2>6, <2>c DEF SetupFails
  <2>7. ASSUME NEW c \in Conns, PlayClient(c) PROVE IInv'
    <3>1. CASE cur[c] = NoClient
      BY <2>7, <2>c, <3>1 DEF PlayClient
    <3>2. CASE cur[c] # NoClient
      <4>1. /\ pc[c] = "work" /\ cmd[c] = "PLAY" /\ enc # "visit"
            /\ pc' = [pc EXCEPT ![c] = "post"]
            /\ playing' = playing \cup {cur[c]}
            /\ looped' = (looped \/ cur[c] \in playing)
            /\ UNCHANGED <<sess, cmd, cur, live, enc, todo>>
        BY <2>7, <3>2 DEF PlayClient, Push
      <4>2. cur[c] \notin playing
        BY <2>0, <3>2, <4>1 DEF Listed, Phase
      <4>3. HoldsLive' /\ NoSharing' /\ Owned' /\ Phase' /\ SetUp' /\ VisitLocked'
        BY <2>0, <4>1 DEF HoldsLive, NoSharing, Owned, Phase, SetUp, VisitLocked
      <4>4. Listed'
        BY <2>0, <3>2, <4>1 DEF Listed, NoSharing
      <4>5. QED
        BY <2>0, <4>1, <4>2, <4>3, <4>4 DEF IInv
    <3>3. QED
      BY <3>1, <3>2
  <2>8. ASSUME NEW c \in Conns, RemoveClient(c) PROVE IInv'
    <3>1. /\ pc[c] = "work" /\ cmd[c] \in {"PAUSE", "TEARDOWN", "KILL"}
          /\ pc' = [pc EXCEPT ![c] = "post"]
          /\ UNCHANGED <<sess, cmd, cur, live, enc, todo>>
          /\ Remove(cur[c])
      BY <2>8 DEF RemoveClient
    <3>2. /\ playing' = playing \ {cur[c]} /\ ~looped'
          /\ todo # {} => playing' = playing
      BY <2>0, <3>1, RemoveSound
    <3>3. HoldsLive' /\ NoSharing' /\ Phase' /\ SetUp' /\ VisitLocked'
      BY <2>0, <3>1, <3>2 DEF HoldsLive, NoSharing, Phase, SetUp, VisitLocked
    <3>4. Owned' /\ Listed'
      BY <2>0, <3>1, <3>2 DEF Owned, Listed
    <3>5. QED
      BY <3>2, <3>3, <3>4 DEF IInv
  <2>9. ASSUME NEW c \in Conns, Post(c) PROVE IInv'
    <3>1. /\ pc[c] = "post" /\ cmd' = [cmd EXCEPT ![c] = "UNKNOWN"]
          /\ sess' = [sess EXCEPT ![c] = NextState(sess[c], cmd[c])]
          /\ pc' = [pc EXCEPT ![c] = IF sess'[c] = "DEAD" THEN "exit" ELSE "recv"]
          /\ UNCHANGED <<cur, live, playing, looped, enc, todo>>
      BY <2>9 DEF Post
    <3>2. cmd[c] = "PLAY" => sess'[c] = "PLAY" /\ pc'[c] = "recv"
      BY <2>0, <3>1 DEF Phase, NextState
    <3>3. pc'[c] = "recv" => sess'[c] # "DEAD"
      BY <3>1
    <3>4. HoldsLive' /\ NoSharing' /\ Owned' /\ VisitLocked'
      BY <2>0, <3>1 DEF HoldsLive, NoSharing, Owned, VisitLocked
    <3>5. Phase' /\ SetUp'
      BY <2>0, <3>1, <3>3 DEF Phase, SetUp, NextState, States
    <3>6. Listed'
      BY <2>0, <3>1, <3>2 DEF Listed
    <3>7. QED
      BY <2>0, <3>1, <3>4, <3>5, <3>6 DEF IInv
  <2>10. ASSUME NEW c \in Conns, Terminate(c) PROVE IInv'
    <3>1. /\ pc[c] = "exit" /\ pc' = [pc EXCEPT ![c] = "ended"]
          /\ UNCHANGED <<sess, cmd, cur, live, enc, todo>>
          /\ Remove(cur[c])
      BY <2>10 DEF Terminate
    <3>2. /\ playing' = playing \ {cur[c]} /\ ~looped'
          /\ todo # {} => playing' = playing
      BY <2>0, <3>1, RemoveSound
    <3>3. HoldsLive' /\ NoSharing' /\ Phase' /\ SetUp' /\ VisitLocked'
      BY <2>0, <3>1, <3>2 DEF HoldsLive, NoSharing, Phase, SetUp, VisitLocked
    <3>4. Owned' /\ Listed'
      BY <2>0, <3>1, <3>2 DEF Owned, Listed
    <3>5. QED
      BY <3>2, <3>3, <3>4 DEF IInv
  <2>11. CASE Encode
    BY <2>0, <2>11 DEF Encode, EncTake, EncLock, EncSend, EncUnlock, IInv, HoldsLive, NoSharing, Owned, Listed, Phase, SetUp, VisitLocked
  <2>12. ASSUME NEW o \in Objs, CliFetch(o) PROVE IInv'
    BY <2>0, <2>12 DEF CliFetch, IInv, HoldsLive, NoSharing, Owned, Listed, Phase, SetUp, VisitLocked
  <2>13. CASE CliPrint
    BY <2>0, <2>13 DEF CliPrint, IInv, HoldsLive, NoSharing, Owned, Listed, Phase, SetUp, VisitLocked
  <2>14. CASE UNCHANGED vars
    BY <2>0, <2>14 DEF vars, IInv, HoldsLive, NoSharing, Owned, Listed, Phase, SetUp, VisitLocked
  <2>15. QED
    BY <2>1, <2>2, <2>3, <2>4, <2>5, <2>6, <2>7, <2>8, <2>9, <2>10, <2>11,
       <2>12, <2>13, <2>14 DEF Next, ThreadStep
<1>3. QED
  BY <1>1, <1>2, TypeCorrect, PTL DEF Spec

(* A visit sends only to clients on the list, whatever peers send and even *)
(* where a second PLAY has made the list endless: the mutex alone sees to  *)
(* that, for every step that takes a client off needs it.                  *)
THEOREM VisitsAreCurrent == Spec => []VisitIsCurrent
<1>1. Init => VisitLocked
  BY DEF Init, VisitLocked
<1>2. VisitLocked /\ [Next]_vars => VisitLocked'
  <2> SUFFICES ASSUME VisitLocked, [Next]_vars PROVE VisitLocked'
    OBVIOUS
  <2>1. ASSUME UNCHANGED encoder, playing \subseteq playing' PROVE VisitLocked'
    BY <2>1 DEF VisitLocked, encoder
  <2>2. ASSUME UNCHANGED encoder, Unlocked PROVE VisitLocked'
    BY <2>2 DEF VisitLocked, encoder, Unlocked
  <2>3. ASSUME NEW o, UNCHANGED encoder, Remove(o) PROVE VisitLocked'
    BY <2>1, <2>2, <2>3 DEF Remove, engine
  <2>4. ASSUME NEW c \in Conns, Accept(c) \/ Reap(c) \/ Disconnect(c) \/ Post(c)
               PROVE VisitLocked'
    BY <2>1, <2>4 DEF Accept, Reap, Disconnect, Post, engine
  <2>5. ASSUME Crash PROVE VisitLocked'
    BY <2>1, <2>5 DEF Crash, engine
  <2>6. ASSUME NEW c \in Conns, NEW r \in Requests, Receive(c, r) PROVE VisitLocked'
    BY <2>1, <2>5, <2>6 DEF Receive, engine
  <2>7. ASSUME NEW c \in Conns, SetupClient(c) \/ RemoveClient(c) \/ Terminate(c)
               PROVE VisitLocked'
    BY <2>3, <2>7 DEF SetupClient, RemoveClient, Terminate
  <2>8. ASSUME NEW c \in Conns, SetupFails(c) \/ PlayClient(c) PROVE VisitLocked'
    BY <2>2, <2>5, <2>8 DEF SetupFails, PlayClient, Push
  <2>9. ASSUME EncTake \/ EncUnlock \/ CliPrint PROVE VisitLocked'
    BY <2>9 DEF EncTake, EncUnlock, CliPrint, VisitLocked, engine, encoder
  <2>10. ASSUME EncLock PROVE VisitLocked'
    BY <2>10 DEF EncLock, VisitLocked, engine
  <2>11. ASSUME NEW o \in Objs, EncSend(o) \/ CliFetch(o) PROVE VisitLocked'
    BY <2>11 DEF EncSend, CliFetch, VisitLocked, engine, encoder
  <2>12. CASE UNCHANGED vars
    BY <2>1, <2>12 DEF vars, engine
  <2>13. QED
    BY <2>4, <2>6, <2>7, <2>8, <2>9, <2>10, <2>11, <2>12
       DEF Next, ThreadStep, Encode
<1>3. VisitLocked => VisitIsCurrent
  BY DEF VisitLocked, VisitIsCurrent
<1>4. QED
  BY <1>1, <1>2, <1>3, PTL DEF Spec

(* Four of the engine's promises follow: no deleted client is sent to, a   *)
(* visit is not overtaken by a removal, every node has one owner, and      *)
(* whoever last heard that he is not in PLAY is not on the list.           *)
THEOREM Safety ==
    ASSUME "PLAY" \notin Repeats
    PROVE  Spec => [](NoUseAfterFree /\ VisitIsCurrent /\ OwnedByOne
                      /\ OnlyPlayIsOnTheList)
<1>1. IInv => NoUseAfterFree /\ VisitIsCurrent /\ OwnedByOne /\ OnlyPlayIsOnTheList
  <2> SUFFICES ASSUME IInv
               PROVE  NoUseAfterFree /\ VisitIsCurrent /\ OwnedByOne
                      /\ OnlyPlayIsOnTheList
    OBVIOUS
  <2> USE NoClientAssumption DEF IInv, TypeOK, Current
  <2>1. VisitIsCurrent
    BY DEF VisitLocked, VisitIsCurrent
  <2>2. NoUseAfterFree
    BY <2>1 DEF Owned, HoldsLive, VisitIsCurrent, NoUseAfterFree
  <2>3. OwnedByOne
    BY DEF Owned, NoSharing, OwnedByOne
  <2>4. OnlyPlayIsOnTheList
    BY DEF Listed, OnlyPlayIsOnTheList
  <2>5. QED
    BY <2>1, <2>2, <2>3, <2>4
<1>2. QED
  BY <1>1, Invariance, PTL

(* In particular nobody is sent packets whose last response told him of    *)
(* another state than PLAY.                                                *)
THEOREM OnlyPlayersAreSentTo ==
    ASSUME "PLAY" \notin Repeats
    PROVE  Spec => []OnlyPlayIsOnTheList
  BY Safety, PTL

(* The ASSERT in RTSP_Handler::play cannot fail, and no null pointer is    *)
(* read, if every request line is whole and every UDP socket opens.        *)
THEOREM NoCrash ==
    ASSUME "PLAY" \notin Repeats, ~UdpFails, \A r \in Requests : ~Faults(r)
    PROVE  Spec => []NoAssertFails
<1>1. Init => NoAssertFails
  BY DEF Init, NoAssertFails
<1>2. IInv /\ NoAssertFails /\ [Next]_vars => NoAssertFails'
  <2> SUFFICES ASSUME IInv, NoAssertFails, [Next]_vars PROVE ~crashed'
    BY DEF NoAssertFails
  <2>0. ~crashed
    BY DEF NoAssertFails
  <2>1. ASSUME NEW c \in Conns, NEW r \in Requests, Receive(c, r) PROVE ~crashed'
    BY <2>0, <2>1 DEF Receive
  <2>2. ASSUME NEW c \in Conns, PlayClient(c) PROVE ~crashed'
    <3>1. cur[c] # NoClient
      BY <2>2 DEF PlayClient, Doing, At, IInv, Phase, SetUp
    <3>2. QED
      BY <2>0, <2>2, <3>1 DEF PlayClient
  <2>3. QED
    BY <2>0, <2>1, <2>2
       DEF Next, ThreadStep, Encode, Accept, Reap, Disconnect, SetupClient,
           SetupFails, RemoveClient, Post, Terminate, EncTake, EncLock, EncSend,
           EncUnlock, CliFetch, CliPrint, vars
<1>3. QED
  BY <1>1, <1>2, Invariance, PTL DEF Spec

(* If every peer sends one SETUP, every RTP_Client allocated is one its    *)
(* connection will delete, and whoever is in PLAY is on the list.          *)
THEOREM PoliteSafety ==
    ASSUME Repeats = {}
    PROVE  Spec => [](NoLeak /\ PlayIsOnTheList)
<1> USE DEF Current
<1>1. Init => PoliteInv
  BY DEF Init, PoliteInv, NoLeak
<1>2. IInv /\ IInv' /\ PoliteInv /\ [Next]_vars => PoliteInv'
  <2> SUFFICES ASSUME IInv, IInv', PoliteInv, [Next]_vars PROVE PoliteInv'
    OBVIOUS
  <2> USE DEF TypeOK, At, Goto, Doing, Unlocked
  <2>0. /\ TypeOK /\ ~looped /\ HoldsLive /\ NoSharing /\ Owned /\ Listed
        /\ Phase /\ SetUp /\ VisitLocked
        /\ TypeOK' /\ Phase' /\ SetUp' /\ Owned' /\ Listed'
    BY DEF IInv
  <2>c. Crash => PoliteInv'
    BY DEF Crash, PoliteInv, NoLeak
  <2>1. ASSUME NEW c \in Conns, Accept(c) PROVE PoliteInv'
    <3>1. {d \in Conns : Current(d)}' = {d \in Conns : Current(d)}
      BY <2>0, <2>1 DEF Accept
    <3>2. NoLeak'
      BY <2>1, <3>1 DEF Accept, PoliteInv, NoLeak
    <3>3. sess[c] # "PLAY"
      BY <2>0, <2>1 DEF Accept, Phase
    <3>4. QED
      BY <2>0, <2>1, <3>2, <3>3 DEF Accept, PoliteInv
  <2>2. ASSUME NEW c \in Conns, Reap(c) PROVE PoliteInv'
    <3>1. NoLeak'
      BY <2>0, <2>2 DEF Reap, PoliteInv, NoLeak, NoSharing
    <3>2. QED
      BY <2>0, <2>2, <3>1 DEF Reap, PoliteInv
  <2>3. ASSUME NEW c \in Conns, Disconnect(c) PROVE PoliteInv'
    <3>1. NoLeak'
      BY <2>0, <2>3 DEF Disconnect, PoliteInv, NoLeak
    <3>2. QED
      BY <2>0, <2>3, <3>1 DEF Disconnect, PoliteInv
  <2>4. ASSUME NEW c \in Conns, NEW r \in Requests, Receive(c, r) PROVE PoliteInv'
    <3>1. CASE Faults(r)
      BY <2>4, <2>c, <3>1 DEF Receive
    <3>2. CASE ~Faults(r)
      <4>1. /\ pc[c] = "recv" /\ pc' = [pc EXCEPT ![c] = "work"]
            /\ cmd' = [cmd EXCEPT ![c] = r.method]
            /\ UNCHANGED <<sess, cur, live, playing>>
        BY <2>4, <3>2 DEF Receive, engine
      <4>2. r.method = "SETUP" => cur[c] = NoClient
        BY <2>4 DEF Receive, Sends
      <4>3. NoLeak'
        BY <2>0, <4>1 DEF PoliteInv, NoLeak
      <4>4. QED
        BY <2>0, <4>1, <4>2, <4>3 DEF PoliteInv
    <3>3. QED
      BY <3>1, <3>2
  <2>5. ASSUME NEW c \in Conns, SetupClient(c) PROVE PoliteInv'
    <3>1. /\ pc[c] = "work" /\ cmd[c] = "SETUP" /\ cur[c] = NoClient
          /\ pc' = [pc EXCEPT ![c] = "post"]
          /\ UNCHANGED <<sess, cmd, playing>>
      BY <2>5 DEF SetupClient, Remove, PoliteInv
    <3>2. PICK o \in Objs \ live : /\ live' = live \cup {o}
                                   /\ cur' = [cur EXCEPT ![c] = o]
      BY <2>5 DEF SetupClient, NewClient
    <3>3. NoLeak'
      BY <2>0, <3>1, <3>2, NoClientAssumption DEF PoliteInv, NoLeak
    <3>4. sess[c] # "PLAY"
      BY <2>0, <3>1 DEF SetUp
    <3>5. QED
      BY <2>0, <3>1, <3>2, <3>3, <3>4 DEF PoliteInv
  <2>6. ASSUME NEW c \in Conns, SetupFails(c) PROVE PoliteInv'
    BY <2>6, <2>c DEF SetupFails
  <2>7. ASSUME NEW c \in Conns, PlayClient(c) PROVE PoliteInv'
    <3>1. CASE cur[c] = NoClient
      BY <2>7, <2>c, <3>1 DEF PlayClient
    <3>2. CASE cur[c] # NoClient
      <4>1. /\ pc[c] = "work" /\ cmd[c] = "PLAY"
            /\ pc' = [pc EXCEPT ![c] = "post"]
            /\ playing' = playing \cup {cur[c]}
            /\ UNCHANGED <<sess, cmd, cur, live>>
        BY <2>7, <3>2 DEF PlayClient, Push
      <4>2. NoLeak'
        BY <2>0, <4>1 DEF PoliteInv, NoLeak
      <4>3. sess[c] # "PLAY"
        BY <2>0, <4>1 DEF Phase
      <4>4. QED
        BY <2>0, <4>1, <4>2, <4>3 DEF PoliteInv
    <3>3. QED
      BY <3>1, <3>2
  <2>8. ASSUME NEW c \in Conns, RemoveClient(c) PROVE PoliteInv'
    <3>1. /\ pc[c] = "work" /\ pc' = [pc EXCEPT ![c] = "post"]
          /\ UNCHANGED <<sess, cmd, cur, live>>
          /\ Remove(cur[c])
      BY <2>8 DEF RemoveClient
    <3>2. playing' = playing \ {cur[c]}
      BY <2>0, <3>1, RemoveSound
    <3>3. \A d \in Conns \ {c} :
             pc[d] # "deleted" /\ cur[d] \in playing => cur[d] \in playing'
      BY <2>0, <3>1, <3>2, NoClientAssumption DEF NoSharing
    <3>4. NoLeak'
      BY <2>0, <3>1 DEF PoliteInv, NoLeak
    <3>5. QED
      BY <2>0, <2>8, <3>1, <3>3, <3>4 DEF PoliteInv, RemoveClient
  <2>9. ASSUME NEW c \in Conns, Post(c) PROVE PoliteInv'
    <3>1. /\ pc[c] = "post" /\ cmd' = [cmd EXCEPT ![c] = "UNKNOWN"]
          /\ sess' = [sess EXCEPT ![c] = NextState(sess[c], cmd[c])]
          /\ pc' = [pc EXCEPT ![c] = IF sess'[c] = "DEAD" THEN "exit" ELSE "recv"]
          /\ UNCHANGED <<cur, live, playing>>
      BY <2>9 DEF Post, engine
    <3>2. sess'[c] = "PLAY" => cmd[c] = "PLAY"
      BY <2>0, <3>1 DEF NextState, PoliteInv
    <3>3. NoLeak'
      BY <2>0, <3>1 DEF PoliteInv, NoLeak
    <3>4. QED
      BY <2>0, <3>1, <3>2, <3>3 DEF PoliteInv
  <2>10. ASSUME NEW c \in Conns, Terminate(c) PROVE PoliteInv'
    <3>1. /\ pc[c] = "exit" /\ pc' = [pc EXCEPT ![c] = "ended"]
          /\ UNCHANGED <<sess, cmd, cur, live>>
          /\ Remove(cur[c])
      BY <2>10 DEF Terminate
    <3>2. playing' = playing \ {cur[c]}
      BY <2>0, <3>1, RemoveSound
    <3>3. \A d \in Conns \ {c} :
             pc[d] # "deleted" /\ cur[d] \in playing => cur[d] \in playing'
      BY <2>0, <3>1, <3>2, NoClientAssumption DEF NoSharing
    <3>4. NoLeak'
      BY <2>0, <3>1 DEF PoliteInv, NoLeak
    <3>5. QED
      BY <2>0, <2>10, <3>1, <3>3, <3>4 DEF PoliteInv, Terminate
  <2>11. ASSUME UNCHANGED <<pc, sess, cmd, cur, live, playing>> PROVE PoliteInv'
    BY <2>11 DEF PoliteInv, NoLeak
  <2>12. QED
    BY <2>1, <2>2, <2>3, <2>4, <2>5, <2>6, <2>7, <2>8, <2>9, <2>10, <2>11
       DEF Next, ThreadStep, Encode, EncTake, EncLock, EncSend, EncUnlock,
           CliFetch, CliPrint, vars
<1>3. PoliteInv => NoLeak /\ PlayIsOnTheList
  BY DEF PoliteInv, PlayIsOnTheList
<1>4. "PLAY" \notin Repeats
  OBVIOUS
<1>5. QED
  BY <1>1, <1>2, <1>3, <1>4, Invariance, PTL DEF Spec

(* In particular everyone who was told that he is in PLAY is sent packets. *)
THEOREM PlayersAreSentTo ==
    ASSUME Repeats = {}
    PROVE  Spec => []PlayIsOnTheList
  BY PoliteSafety, PTL

-----------------------------------------------------------------------------
(* The server implements the multicast's safety: every step of a thread is *)
(* a step of Multicast or changes nothing a listener could hear.           *)
THEOREM Refinement ==
    ASSUME "PLAY" \notin Repeats
    PROVE  Spec => Air!Safe
<1> USE DEF OnAir, Due, Gone
<1>1. Init => Air!Init
  BY NoClientAssumption DEF Init, Air!Init
<1>2. IInv /\ IInv' /\ [Next]_vars => [Air!Next]_Air!vars
  <2> SUFFICES ASSUME IInv, IInv', [Next]_vars
               PROVE  Air!Next \/ UNCHANGED Air!vars
    OBVIOUS
  <2> USE NoClientAssumption DEF Current, TypeOK, At, Goto, Doing, Unlocked
  <2>0. /\ TypeOK /\ ~looped /\ HoldsLive /\ NoSharing /\ Owned /\ Listed
        /\ Phase /\ SetUp /\ VisitLocked
        /\ TypeOK'
    BY DEF IInv
  <2>1. ASSUME NEW c \in Conns, Accept(c) PROVE UNCHANGED Air!vars
    BY <2>0, <2>1 DEF Accept, Air!vars
  <2>2. ASSUME NEW c \in Conns, Reap(c) PROVE UNCHANGED Air!vars
    BY <2>0, <2>2 DEF Reap, Air!vars, Listed, VisitLocked
  <2>3. ASSUME NEW c \in Conns, Disconnect(c) PROVE UNCHANGED Air!vars
    BY <2>0, <2>3 DEF Disconnect, Air!vars
  <2>4. ASSUME NEW c \in Conns, NEW r \in Requests, Receive(c, r)
        PROVE  UNCHANGED Air!vars
    BY <2>0, <2>4 DEF Receive, Crash, Air!vars
  <2>5. ASSUME NEW c \in Conns, SetupClient(c)
        PROVE  Air!Leave(c) \/ UNCHANGED Air!vars
    <3>1. /\ pc[c] = "work" /\ pc' = [pc EXCEPT ![c] = "post"]
          /\ todo' = todo /\ Remove(cur[c])
      BY <2>5 DEF SetupClient
    <3>2. PICK o \in Objs \ live : cur' = [cur EXCEPT ![c] = o]
      BY <2>5 DEF SetupClient, NewClient
    <3>3. playing' = playing \ {cur[c]}
      BY <2>0, <3>1, RemoveSound
    <3>4. o \notin playing /\ o \notin todo
      BY <2>0, <3>2 DEF Owned, HoldsLive, VisitLocked
    <3>5. OnAir' = OnAir \ {c} /\ Gone' = Gone
      BY <2>0, <3>1, <3>2, <3>3, <3>4 DEF NoSharing
    <3>6. CASE cur[c] = NoClient
      <4>1. OnAir' = OnAir /\ Due' = Due
        BY <2>0, <3>1, <3>2, <3>4, <3>5, <3>6
      <4>2. QED
        BY <3>5, <4>1 DEF Air!vars
    <3>7. CASE cur[c] # NoClient
      <4>1. todo = {}
        BY <2>0, <3>1, <3>7 DEF Remove, VisitLocked
      <4>2. QED
        BY <3>1, <3>5, <4>1 DEF Air!Leave
    <3>8. QED
      BY <3>6, <3>7
  <2>6. ASSUME NEW c \in Conns, SetupFails(c) PROVE UNCHANGED Air!vars
    BY <2>6 DEF SetupFails, Crash, Air!vars
  <2>7. ASSUME NEW c \in Conns, PlayClient(c)
        PROVE  Air!Join(c) \/ UNCHANGED Air!vars
    <3>1. CASE cur[c] = NoClient
      BY <2>7, <3>1 DEF PlayClient, Crash, Air!vars
    <3>2. CASE cur[c] # NoClient
      <4>1. /\ pc[c] = "work" /\ cmd[c] = "PLAY" /\ enc # "visit"
            /\ pc' = [pc EXCEPT ![c] = "post"]
            /\ playing' = playing \cup {cur[c]}
            /\ UNCHANGED <<cur, todo>>
        BY <2>7, <3>2 DEF PlayClient, Push
      <4>2. c \notin OnAir \cup Gone /\ todo = {}
        BY <2>0, <4>1 DEF Listed, Phase, VisitLocked
      <4>3. OnAir' = OnAir \cup {c} /\ Gone' = Gone /\ Due = {} /\ Due' = {}
        BY <2>0, <3>2, <4>1, <4>2 DEF NoSharing
      <4>4. QED
        BY <4>2, <4>3 DEF Air!Join
    <3>3. QED
      BY <3>1, <3>2
  <2>8. ASSUME NEW c \in Conns, RemoveClient(c)
        PROVE  Air!Leave(c) \/ UNCHANGED Air!vars
    <3>1. /\ pc[c] = "work" /\ pc' = [pc EXCEPT ![c] = "post"]
          /\ UNCHANGED <<cur, todo>> /\ Remove(cur[c])
      BY <2>8 DEF RemoveClient
    <3>2. playing' = playing \ {cur[c]}
      BY <2>0, <3>1, RemoveSound
    <3>3. OnAir' = OnAir \ {c} /\ Gone' = Gone /\ Due' = Due
      BY <2>0, <3>1, <3>2 DEF NoSharing
    <3>4. CASE cur[c] = NoClient
      BY <2>0, <3>3, <3>4 DEF Air!vars
    <3>5. CASE cur[c] # NoClient
      BY <2>0, <3>1, <3>3, <3>5 DEF Remove, VisitLocked, Air!Leave
    <3>6. QED
      BY <3>4, <3>5
  <2>9. ASSUME NEW c \in Conns, Post(c) PROVE UNCHANGED Air!vars
    BY <2>0, <2>9 DEF Post, Air!vars
  <2>10. ASSUME NEW c \in Conns, Terminate(c) PROVE Air!LeaveForGood(c)
    <3>1. /\ pc[c] = "exit" /\ pc' = [pc EXCEPT ![c] = "ended"]
          /\ UNCHANGED <<cur, todo>> /\ Remove(cur[c])
      BY <2>10 DEF Terminate
    <3>2. playing' = playing \ {cur[c]}
      BY <2>0, <3>1, RemoveSound
    <3>3. OnAir' = OnAir \ {c} /\ Gone' = Gone \cup {c} /\ Due' = Due
      BY <2>0, <3>1, <3>2 DEF NoSharing
    <3>4. c \in OnAir => Due = {}
      BY <2>0, <3>1 DEF Remove, VisitLocked
    <3>5. QED
      BY <3>3, <3>4 DEF Air!LeaveForGood
  <2>11. ASSUME EncLock PROVE Air!Packet \/ UNCHANGED Air!vars
    BY <2>0, <2>11 DEF EncLock, VisitLocked, Owned, Air!Packet, Air!vars
  <2>12. ASSUME NEW o \in Objs, EncSend(o)
         PROVE  \E l \in Conns : Air!Send(l)
    <3>1. o \in todo /\ todo' = todo \ {o} /\ UNCHANGED <<pc, cur, playing>>
      BY <2>0, <2>12 DEF EncSend, conn, engine
    <3>2. PICK l \in Conns : cur[l] = o /\ pc[l] # "deleted"
      BY <2>0, <3>1 DEF Owned, VisitLocked
    <3>3. l \in Due /\ Due' = Due \ {l} /\ OnAir' = OnAir /\ Gone' = Gone
      BY <2>0, <3>1, <3>2 DEF NoSharing
    <3>4. QED
      BY <3>3 DEF Air!Send
  <2>13. ASSUME UNCHANGED <<pc, cur, playing, todo>> PROVE UNCHANGED Air!vars
    BY <2>13 DEF Air!vars
  <2>14. QED
    BY <2>1, <2>2, <2>3, <2>4, <2>5, <2>6, <2>7, <2>8, <2>9, <2>10, <2>11,
       <2>12, <2>13
       DEF Next, ThreadStep, Encode, EncTake, EncUnlock, CliFetch, CliPrint,
           vars, conn, engine, encoder, Air!Next
<1>3. QED
  BY <1>1, <1>2, Invariance, PTL DEF Spec, Air!Safe
=============================================================================
