-------------------------- MODULE LifecycleProofs --------------------------
(***************************************************************************)
(* What holds of Lifecycle for any number of CLIs: no thread runs on what  *)
(* is not there, and the board stops for a reason that StartIsWhole names. *)
(***************************************************************************)
EXTENDS Lifecycle, TLAPS

(* Where the server thread is while the engine and the reader exist, and   *)
(* while each audio thread may run.                                        *)
WithReader == {"start_reader", "start_encoder", "listen", "serving", "kill",
               "join_encoder", "join_reader", "delete_reader"}
WithEngine == {"register", "reader", "delete_engine"} \cup WithReader
WithCodec  == {"engine", "delete_codec"} \cup WithEngine
ReaderRuns  == WithReader \ {"start_reader", "delete_reader"}
EncoderRuns == ReaderRuns \ {"start_encoder", "join_reader"}

Late == {"delete_engine", "delete_codec", "returned"}

Before == {"devices", "network", "board", "codec", "i2s", "app", "run", "init"}

(* The main thread has registered what its next steps will assert; before  *)
(* it starts the server thread there is none.                              *)
BootInv ==
    /\ boot = "devices" => objects = {}
    /\ boot \in {"network", "board"} => devices \subseteq objects
    /\ boot \in {"network", "board", "codec"} => "codec" \notin objects
    /\ boot = "i2s" => Live("codec") /\ "codec" \in objects
    /\ boot = "run" => "app" \in objects \/ ("net" \notin objects /\ "led" \in devices)
    /\ boot \in {"init", "commands", "cli"} => "cli" \in objects
    /\ boot \in {"devices", "network", "board", "codec", "i2s"} => ~handler
    /\ boot = "init" => handler
    /\ boot = "commands" => rtsp # "none"
    /\ boot \in Before => rtsp = "none" /\ ~commands
    /\ handler => Live("i2s") /\ {"codec", "i2s"} \subseteq objects
    /\ handler /\ rtsp = "none" => Live("codec")
    /\ channel = "enabled" => Live("i2s")

(* What the server thread has made it has not deleted, nor stopped the     *)
(* threads that use it, until it gets to where it does.                    *)
ServerInv ==
    /\ rtsp # "none" => handler
    /\ rtsp \in WithCodec => Live("codec")
    /\ rtsp \in WithEngine => Live("engine")
    /\ rtsp \in WithReader => Live("reader")
    /\ "rtp" \in objects => rtsp \notin {"none", "engine", "register"}
    /\ rtsp \notin {"none", "engine", "register"} => "rtp" \in objects
    /\ rthread # "none" => rtsp \in ReaderRuns \cup {"delete_reader"} \cup Late
    /\ ethread # "none" => rtsp \in EncoderRuns \cup {"join_reader", "delete_reader"} \cup Late
    /\ rthread = "running" => rtsp \in ReaderRuns
    /\ ethread \in {"running", "waiting"} => rtsp \in EncoderRuns
    /\ ~dead => rtsp \in {"none"} \cup (WithCodec \ {"join_encoder", "join_reader",
                                  "delete_reader", "delete_engine", "delete_codec"})

(* A command is under way only once rtp_init has added the commands.       *)
CliInv ==
    /\ commands => rtsp # "none"
    /\ halted = "no" => \A c \in Clis : /\ cli[c] # "idle" => commands
                                        /\ cli[c] = "rtp" => "rtp" \in objects

LifeInv == TypeOK /\ StartIsWhole /\ BootInv /\ ServerInv /\ CliInv

(* No step of any thread leaves LifeInv.                                   *)
LEMMA Invariance == Spec => []LifeInv
<1> USE DEF Things, Names
<1>1. Init => LifeInv
  <2>1. Init => TypeOK
    BY DEF Init, TypeOK
  <2>2. Init => StartIsWhole /\ BootInv
    BY DEF Init, StartIsWhole, BootInv, Live
  <2>3. Init => ServerInv /\ CliInv
    BY DEF Init, ServerInv, CliInv, Live, WithReader, WithEngine, WithCodec,
           ReaderRuns, EncoderRuns, Late
  <2>4. QED
    BY <2>1, <2>2, <2>3 DEF LifeInv
<1>2. LifeInv /\ [Next]_vars => LifeInv'
  <2> SUFFICES ASSUME LifeInv, [Next]_vars PROVE LifeInv'
    OBVIOUS
  <2> USE DEF LifeInv, TypeOK, StartIsWhole, BootInv, ServerInv, CliInv, Live,
              WithReader, WithEngine, WithCodec, ReaderRuns, EncoderRuns, Late, Before, Boards
  <2> USE DEF booting, serving, threads, BootAt, ServerAt, Make, Register, Assert
  <2>1. CASE InitDevices
    BY <2>1 DEF InitDevices
  <2>2. CASE DevicesFail
    BY <2>2 DEF DevicesFail
  <2>3. CASE StartNetwork
    BY <2>3 DEF StartNetwork
  <2>4. CASE BoardInit
    BY <2>4 DEF BoardInit
  <2>5. CASE MakeCodec
    BY <2>5 DEF MakeCodec
  <2>6. CASE NoCodec \/ NotCreatable
    <3>1. CASE NoCodec
      BY <3>1 DEF NoCodec, NoCodecAnd
    <3>2. CASE NotCreatable
      BY <3>2 DEF NotCreatable
    <3>3. QED
      BY <2>6, <3>1, <3>2
  <2>7. CASE MakeI2S
    BY <2>7 DEF MakeI2S, MakeI2SAnd, InitLeaves, InitCalls
  <2>8. CASE NoI2S
    <3>1. channel' \in {"none", "allocated"}
      BY <2>8 DEF NoI2S, InitLeaves, InitCalls, DestructorLeaves
    <3>2. QED
      BY <2>8, <3>1 DEF NoI2S
  <2>9. CASE DefineApp
    BY <2>9 DEF DefineApp
  <2>10. CASE RunApp
    BY <2>10 DEF RunApp
  <2>11. CASE RtpInit
    BY <2>11 DEF RtpInit
  <2>12. CASE AddCommands
    <3>1. rtsp # "none"
      BY <2>12 DEF AddCommands
    <3>2. QED
      BY <2>12, <3>1 DEF AddCommands
  <2>13. CASE Network
    BY <2>13 DEF Network
  <2>14. CASE MakeEngine
    BY <2>14 DEF MakeEngine
  <2>15. CASE RegisterEngine
    BY <2>15 DEF RegisterEngine
  <2>16. CASE MakeReader \/ OutOfMemory
    <3>1. CASE MakeReader
      BY <3>1 DEF MakeReader
    <3>2. CASE OutOfMemory
      <4>1. /\ rtsp \in {"engine", "reader"} /\ halted' = "memory"
            /\ UNCHANGED <<devices, boot, objects, heap, iface, channel, handler,
                           commands, rtsp, dead, rthread, ethread, cli>>
        BY <3>2 DEF OutOfMemory
      <4>2. rthread = "none" /\ ethread = "none"
        BY <4>1
      <4>3. QED
        BY <4>1, <4>2
    <3>3. QED
      BY <2>16, <3>1, <3>2
  <2>17. CASE StartReader
    BY <2>17 DEF StartReader
  <2>18. CASE StartEncoder
    BY <2>18 DEF StartEncoder
  <2>19. CASE Listen \/ Killed
    <3>1. rtsp \in {"listen", "serving"} /\ rtsp' \in {"serving", "kill"}
      BY <2>19 DEF Listen, Killed
    <3>2. UNCHANGED <<devices, boot, objects, heap, iface, channel, handler, commands,
                      dead, rthread, ethread, cli, halted>>
      BY <2>19 DEF Listen, Killed
    <3>3. QED
      BY <3>1, <3>2
  <2>20. CASE Kill
    BY <2>20 DEF Kill
  <2>21. CASE JoinEncoder
    BY <2>21 DEF JoinEncoder
  <2>22. CASE JoinReader
    BY <2>22 DEF JoinReader
  <2>23. CASE DeleteReader
    BY <2>23 DEF DeleteReader, Deletes, Gone
  <2>24. CASE DeleteEngine
    BY <2>24 DEF DeleteEngine, Deletes, Gone
  <2>25. CASE DeleteCodec
    BY <2>25 DEF DeleteCodec, Deletes, Gone
  <2>26. CASE ReaderEnds \/ EncoderSteps
    <3>1. CASE ReaderEnds
      BY <3>1 DEF ReaderEnds
    <3>2. CASE EncoderSteps
      <4>1. /\ ethread \in {"running", "waiting"}
            /\ ethread' \in {"running", "waiting", "done"}
            /\ UNCHANGED <<devices, boot, objects, heap, iface, channel, handler,
                           commands, rtsp, dead, rthread, cli, halted>>
        BY <3>2 DEF EncoderSteps
      <4>2. QED
        BY <4>1
    <3>3. QED
      BY <2>26, <3>1, <3>2
  <2>27. ASSUME NEW c \in Clis, CmdRtp(c) PROVE LifeInv'
    BY <2>27 DEF CmdRtp, CliIs
  <2>28. ASSUME NEW c \in Clis, CmdCodec(c) PROVE LifeInv'
    BY <2>28 DEF CmdCodec, CliIs
  <2>29. ASSUME NEW c \in Clis, CmdDone(c) PROVE LifeInv'
    BY <2>29 DEF CmdDone, CliIs
  <2>30. ASSUME NEW c \in Clis, CmdNet(c) PROVE LifeInv'
    BY <2>30 DEF CmdNet, CliIs
  <2>31. CASE UNCHANGED vars
    BY <2>31 DEF vars
  <2>32. QED
    BY <2>1, <2>2, <2>3, <2>4, <2>5, <2>6, <2>7, <2>8, <2>9, <2>10, <2>11, <2>12,
       <2>13, <2>14, <2>15, <2>16, <2>17, <2>18, <2>19, <2>20, <2>21, <2>22, <2>23,
       <2>24, <2>25, <2>26, <2>27, <2>28, <2>29, <2>30, <2>31
       DEF Next, Boot, Server, Starting, Ending, Cli
<1>3. QED
  BY <1>1, <1>2, PTL DEF Spec

(* Every variable keeps its type: nothing is deleted twice, whatever ends  *)
(* the server, and no ASSERT that is not named can fail.                   *)
THEOREM TypeCorrect == Spec => []TypeOK
  BY Invariance, PTL DEF LifeInv

(* However many CLIs there are and whatever fails on the way, the reader,  *)
(* the encoder and the I2S callback run only on what exists; a CLI too,    *)
(* until the server is told to end.                                        *)
THEOREM ThreadsAreSafe == Spec => []ThreadsUseLive
<1>1. LifeInv => ThreadsUseLive
  BY DEF LifeInv, TypeOK, BootInv, ServerInv, CliInv, ThreadsUseLive, WithReader,
         WithEngine, WithCodec, ReaderRuns, EncoderRuns
<1>2. QED
  BY <1>1, Invariance, PTL

(* Of the ASSERTs on what an earlier step has made only two can fail:      *)
(* app_main's when a device failed, and the rtp command's before the       *)
(* engine is registered.  Those on settings stop a board without a codec,  *)
(* those on memory one without audio threads.                              *)
THEOREM StopsForAReason == Spec => []StartIsWhole
  BY Invariance, PTL DEF LifeInv
=============================================================================
