----------------------------- MODULE Lifecycle -----------------------------
(***************************************************************************)
(* From power-up to shutdown: who makes, registers, uses and deletes the   *)
(* codec, the I2S driver, the RTP engine and the reader.  The main thread  *)
(* boots the board (main.cpp, network.cpp, board_init of the targets and   *)
(* of esp32/init.cpp), the server thread is _server (server.cpp), the      *)
(* reader and encoder threads it starts are those of AudioPipe, here only  *)
(* running or not, and CLIs on the UART and on telnet give commands.       *)
(***************************************************************************)
EXTENDS Naturals

CONSTANT Clis   \* the CLIs, the UART's and those of telnet

VARIABLES devices,  \* what the board's description lists, fixed
          boot,     \* where the main thread is
          objects,  \* names in Objects::objects; nothing removes any
          heap,     \* what has become of each thing
          iface,    \* the WiFi interface
          channel,  \* the I2S channel of the ESP-IDF
          handler,  \* rtp_init is an INIT handler
          commands, \* add_rtp_commands has been called
          rtsp,     \* where the server thread is
          dead,     \* its flag, on its stack
          rthread,  \* the reader thread
          ethread,  \* the encoder thread
          cli,      \* what each CLI is doing
          halted    \* the ASSERT that stopped the board

booting == <<devices, boot, iface, channel, handler, commands>>
serving == <<rtsp, dead>>
threads == <<rthread, ethread>>
vars == <<objects, heap, booting, serving, threads, cli, halted>>

(* Of the five boards two have an LED strip, one a GPIO, two have both.    *)
Boards == {{"rgb"}, {"led"}, {"rgb", "led"}}

Things == {"codec", "i2s", "engine", "reader"}
Names == {"rgb", "led", "net", "codec", "i2s", "app", "cli", "rtp"}

Init == /\ devices \in Boards
        /\ boot = "devices" /\ objects = {}
        /\ heap = [t \in Things |-> "none"]
        /\ iface = "none" /\ channel = "none"
        /\ handler = FALSE /\ commands = FALSE
        /\ rtsp = "none" /\ dead = FALSE
        /\ rthread = "none" /\ ethread = "none"
        /\ cli = [c \in Clis |-> "idle"]
        /\ halted = "no"

Live(t) == heap[t] = "live"
Make(t) == heap' = [heap EXCEPT ![t] = "live"]
Gone(t) == IF Live(t) THEN "deleted" ELSE "deleted twice"
Register(names) == objects' = objects \cup names

(* ASSERT: when it fails the board stops, whatever the thread does next.   *)
Assert(name, holds) == halted' = IF holds THEN halted ELSE name

-----------------------------------------------------------------------------
(* The main thread.                                                        *)

BootAt(here, next) == /\ halted = "no" /\ boot = here /\ boot' = next
                      /\ UNCHANGED <<devices, serving, threads, cli>>

InitDevices == /\ BootAt("devices", "network")
               /\ Register(devices)
               /\ UNCHANGED <<heap, iface, channel, handler, commands, halted>>

(* A strip, which is registered whether it works or not, F_CAN_FAIL; no    *)
(* other may, and start_app returns before it has registered "app".        *)
DevicesFail == /\ BootAt("devices", "run")
               /\ "led" \in devices
               /\ \E made \in SUBSET (devices \ {"led"}) : Register(made)
               /\ UNCHANGED <<heap, iface, channel, handler, commands, halted>>

StartNetwork == /\ BootAt("network", "board")
                /\ iface' = "connecting" /\ Register({"net"})
                /\ UNCHANGED <<heap, channel, handler, commands, halted>>

NetworkRunning == "net" \in objects /\ iface = "up"

(* network_running is asked once.                                          *)
BoardInit == /\ BootAt("board", IF NetworkRunning THEN "codec" ELSE "app")
             /\ Assert("rgb", "rgb" \in devices => "rgb" \in objects)
             /\ UNCHANGED <<objects, heap, iface, channel, handler, commands>>

MakeCodec == /\ BootAt("codec", "i2s")
             /\ Make("codec") /\ Register({"codec"})
             /\ UNCHANGED <<iface, channel, handler, commands, halted>>

(* Its settings may be none that a codec can be made of, an Opus bit rate  *)
(* of 5000, say: those ASSERTs are in Codecs.                              *)
NotCreatable == /\ BootAt("codec", "codec")
                /\ Assert("create", FALSE)
                /\ UNCHANGED <<objects, heap, iface, channel, handler, commands>>

NoCodecAnd(next) ==
    /\ BootAt("codec", next)
    /\ UNCHANGED <<objects, heap, iface, channel, handler, commands, halted>>

NoCodecGoesOn == NoCodecAnd("i2s")                         \* variant

NoCodec == NoCodecAnd("app")

(* ESP32_I2S::init allocates a channel, sets it up, gives it the overflow  *)
(* callback and enables it, and returns at the first call that fails; the  *)
(* destructor keeps a channel that the driver will not disable.            *)
InitCalls == 4
InitLeaves(done) == CASE done = 0         -> "none"
                      [] done = InitCalls -> "enabled"
                      [] OTHER            -> "allocated"
DestructorLeaves(left) == {"none", left}

MakeI2SAnd(initialised) ==
    /\ BootAt("i2s", "app")
    /\ Assert("codec", Live("codec"))
    /\ Make("i2s") /\ Register({"i2s"})
    /\ channel' = InitLeaves(InitCalls) /\ handler' = initialised
    /\ UNCHANGED <<iface, commands>>

MakeI2SOnly == MakeI2SAnd(FALSE)                           \* variant

(* Once there is an I2S, rtp_init is added to the INIT handlers.           *)
MakeI2S == MakeI2SAnd(TRUE)

NoI2S == /\ BootAt("i2s", "app")
         /\ Assert("codec", Live("codec"))
         /\ heap' = [heap EXCEPT !["i2s"] = "deleted"]
         /\ \E done \in 0 .. InitCalls - 1 :
              channel' \in DestructorLeaves(InitLeaves(done))
         /\ UNCHANGED <<objects, iface, handler, commands>>

DefineApp == /\ BootAt("app", "run")
             /\ Register({"app"})
             /\ UNCHANGED <<heap, iface, channel, handler, commands, halted>>

(* app_main: ASSERT(app), then run_cli, which is panglos's: it registers   *)
(* itself and has the INIT handlers run.                                   *)
RunApp == /\ BootAt("run", IF handler THEN "init" ELSE "cli")
          /\ Assert("app", "app" \in objects)
          /\ Register({"cli"})
          /\ UNCHANGED <<heap, iface, channel, handler, commands>>

(* rtp_init: the server thread is started, then the commands are added.    *)
RtpInit == /\ halted = "no" /\ boot = "init"
           /\ Assert("init", {"i2s", "codec"} \subseteq objects /\ Live("codec"))
           /\ boot' = "commands" /\ rtsp' = "engine"
           /\ UNCHANGED <<devices, objects, heap, iface, channel, handler, commands,
                          dead, threads, cli>>

AddCommands == /\ BootAt("commands", "cli")
               /\ Assert("cli", "cli" \in objects)
               /\ commands' = TRUE
               /\ UNCHANGED <<objects, heap, iface, channel, handler>>

Boot == \/ InitDevices \/ DevicesFail \/ StartNetwork \/ BoardInit
        \/ MakeCodec \/ NotCreatable \/ NoCodec \/ MakeI2S \/ NoI2S
        \/ DefineApp \/ RunApp \/ RtpInit \/ AddCommands

-----------------------------------------------------------------------------
(* The interface, which connects in its own time and may drop.             *)
Network == /\ halted = "no"
           /\ \/ iface = "connecting" /\ iface' = "up"
              \/ iface = "up" /\ iface' = "connecting"
           /\ UNCHANGED <<devices, objects, heap, boot, channel, handler, commands,
                          serving, threads, cli, halted>>

-----------------------------------------------------------------------------
(* The server thread.                                                      *)

ServerAt(here, next) == /\ halted = "no" /\ rtsp = here /\ rtsp' = next
                        /\ UNCHANGED <<booting, cli>>

MakeEngine == /\ ServerAt("engine", "register")
              /\ Assert("server", Live("codec") /\ Live("i2s"))
              /\ Make("engine")
              /\ UNCHANGED <<objects, dead, threads>>

RegisterEngine == /\ ServerAt("register", "reader")
                  /\ Register({"rtp"})
                  /\ UNCHANGED <<heap, dead, threads, halted>>

MakeReader == /\ ServerAt("reader", "start_reader")
              /\ Make("reader")
              /\ UNCHANGED <<objects, dead, threads, halted>>

(* The memory the engine takes for its packets, or the reader for its      *)
(* blocks (ASSERT(data[i])), may not be there.                             *)
OutOfMemory == /\ \/ ServerAt("engine", "engine")
                  \/ ServerAt("reader", "reader")
               /\ Assert("memory", FALSE)
               /\ UNCHANGED <<objects, heap, dead, threads>>

StartReader == /\ ServerAt("start_reader", "start_encoder")
               /\ Assert("run_reader", Live("reader"))
               /\ rthread' = "running"
               /\ UNCHANGED <<objects, heap, dead, ethread>>

StartEncoder == /\ ServerAt("start_encoder", "listen")
                /\ Assert("audio_copy", Live("reader") /\ Live("engine") /\ Live("codec"))
                /\ ethread' = "running"
                /\ UNCHANGED <<objects, heap, dead, rthread>>

(* rtsp_server opens its socket, or returns.                               *)
Listen == /\ \/ ServerAt("listen", "serving")
             \/ ServerAt("listen", "kill")
          /\ UNCHANGED <<objects, heap, dead, threads, halted>>

(* A KILL: run_socket_server returns when the connections are gone.        *)
Killed == /\ ServerAt("serving", "kill")
          /\ UNCHANGED <<objects, heap, dead, threads, halted>>

Kill == /\ ServerAt("kill", "join_encoder")
        /\ dead' = TRUE
        /\ UNCHANGED <<objects, heap, threads, halted>>

JoinEncoder == /\ ethread = "done"
               /\ ServerAt("join_encoder", "join_reader")
               /\ UNCHANGED <<objects, heap, dead, threads, halted>>

JoinNoReader == /\ ServerAt("join_reader", "delete_reader")    \* variant
                /\ UNCHANGED <<objects, heap, dead, threads, halted>>

JoinReader == /\ rthread = "done"
              /\ ServerAt("join_reader", "delete_reader")
              /\ UNCHANGED <<objects, heap, dead, threads, halted>>

Deletes(here, things, next) ==
    /\ ServerAt(here, next)
    /\ heap' = [t \in Things |-> IF t \in things THEN Gone(t) ELSE heap[t]]
    /\ UNCHANGED <<objects, dead, threads, halted>>

DeleteReader == Deletes("delete_reader", {"reader"}, "delete_engine")

DeleteEngineAndCodec == Deletes("delete_engine", {"engine", "codec"}, "delete_codec")  \* variant

(* "rtp" and "codec" stay registered.                                      *)
DeleteEngine == Deletes("delete_engine", {"engine"}, "delete_codec")

DeleteCodec == Deletes("delete_codec", {"codec"}, "returned")

Starting == \/ MakeEngine \/ RegisterEngine \/ MakeReader
            \/ OutOfMemory \/ StartReader \/ StartEncoder \/ Listen
Ending == \/ Kill \/ JoinEncoder \/ JoinReader
          \/ DeleteReader \/ DeleteEngine \/ DeleteCodec
Server == Starting \/ Killed \/ Ending

-----------------------------------------------------------------------------
(* The audio threads, as far as their ends: AudioPipe has their work.      *)

ReaderEnds == /\ halted = "no" /\ rthread = "running"   \* told to, or by a failed read
              /\ rthread' = "done"
              /\ UNCHANGED <<objects, heap, booting, serving, ethread, cli, halted>>

(* It waits for a block with no timeout, and looks at dead between blocks. *)
EncoderSteps == /\ halted = "no"
                /\ \/ ethread = "running" /\ ~dead /\ ethread' = "waiting"
                   \/ ethread = "running" /\ dead /\ ethread' = "done"
                   \/ ethread = "waiting" /\ ethread' = "running"
                /\ UNCHANGED <<objects, heap, booting, serving, rthread, cli, halted>>

-----------------------------------------------------------------------------
(* The CLIs, cli.boot's commands included.                                 *)

CliIs(c, here, next) == /\ halted = "no" /\ boot = "cli"
                        /\ cli[c] = here /\ cli' = [cli EXCEPT ![c] = next]
                        /\ UNCHANGED <<devices, objects, heap, boot, channel, handler,
                                       commands, serving, threads>>

(* rtp: the pointer is fetched, asserted and used.                         *)
CmdRtp(c) == /\ commands /\ CliIs(c, "idle", "rtp")
             /\ Assert("rtp", "rtp" \in objects)
             /\ UNCHANGED iface

CmdCodec(c) == /\ commands /\ CliIs(c, "idle", "codec")
               /\ UNCHANGED <<iface, halted>>

CmdDone(c) == /\ \E cmd \in {"rtp", "codec"} : CliIs(c, cmd, "idle")
              /\ UNCHANGED <<iface, halted>>

(* net start, net stop.                                                    *)
CmdNet(c) == /\ CliIs(c, "idle", "idle")
             /\ "net" \in objects
             /\ iface' = "down" \/ (iface # "up" /\ iface' = "connecting")
             /\ UNCHANGED halted

Cli == \E c \in Clis : CmdRtp(c) \/ CmdCodec(c) \/ CmdDone(c) \/ CmdNet(c)

Next == Boot \/ Network \/ Server \/ ReaderEnds \/ EncoderSteps \/ Cli

Spec == Init /\ [][Next]_vars

(* The main thread and the server's are scheduled; the network, the peers  *)
(* and whoever types commands owe nothing.                                 *)
FairSpec == Spec /\ WF_vars(Boot) /\ WF_vars(Starting)

-----------------------------------------------------------------------------
TypeOK == /\ devices \in Boards
          /\ boot \in {"devices", "network", "board", "codec", "i2s", "app", "run",
                       "init", "commands", "cli"}
          /\ objects \subseteq Names
          /\ heap \in [Things -> {"none", "live", "deleted"}]
          /\ iface \in {"none", "connecting", "up", "down"}
          /\ channel \in {"none", "allocated", "enabled"}
          /\ {handler, commands, dead} \subseteq BOOLEAN
          /\ rtsp \in {"none", "engine", "register", "reader", "start_reader",
                       "start_encoder", "listen", "serving", "kill", "join_encoder",
                       "join_reader", "delete_reader", "delete_engine",
                       "delete_codec", "returned"}
          /\ rthread \in {"none", "running", "done"}
          /\ ethread \in {"none", "running", "waiting", "done"}
          /\ cli \in [Clis -> {"idle", "rtp", "codec"}]
          /\ halted \in {"no", "rgb", "codec", "app", "init", "cli", "server",
                         "run_reader", "audio_copy", "rtp", "create", "memory"}

(* A thread only ever runs on what is there, by whatever way the server    *)
(* ends: the reader reads the I2S source into its own buffers, the encoder *)
(* uses reader, engine and codec, both the flag on the server thread's     *)
(* stack, the channel's callback the I2S object (server.cpp:83-94).  A CLI *)
(* is safe until the server is told to end: after that the names "rtp" and *)
(* "codec" lead to what is deleted.                                        *)
ThreadsUseLive ==
    /\ rthread = "running" => Live("reader") /\ Live("i2s")
    /\ ethread \in {"running", "waiting"} =>
         Live("reader") /\ Live("engine") /\ Live("codec")
    /\ "running" \in {rthread, ethread} => rtsp # "returned"
    /\ channel = "enabled" => Live("i2s")
    /\ ~dead /\ halted = "no" => \A c \in Clis : /\ cli[c] = "rtp" => Live("engine")
                              /\ cli[c] = "codec" => Live("codec")

(* Whatever of the devices, the network, the codec, the I2S, the memory    *)
(* and the socket fails, no step's ASSERT on what an earlier one has made  *)
(* fails but two: app_main's, when a device failed and start_app gave up,  *)
(* and the rtp command's, when it comes before the engine is registered.   *)
(* Settings of no codec stop the board before it has one, and want of      *)
(* memory before the audio threads start and anyone can be served.         *)
StartIsWhole ==
    /\ halted = "app" => "net" \notin objects /\ "led" \in devices
    /\ halted = "rtp" => rtsp \in {"engine", "register"}
    /\ halted = "create" => "codec" \notin objects /\ rtsp = "none"
    /\ halted = "memory" => {rthread, ethread} = {"none"}
    /\ halted \in {"no", "app", "rtp", "create", "memory"}

(* A board that found the network running, made its codec and its I2S      *)
(* comes to serve, or to find its socket taken; unless it stops as above.  *)
ServerComesUp ==
    boot = "codec" ~>
        \/ rtsp \in {"serving", "kill"}
        \/ boot = "cli" /\ ~(Live("codec") /\ Live("i2s"))
        \/ halted \in {"create", "memory", "rtp"}
=============================================================================
