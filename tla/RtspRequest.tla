---------------------------- MODULE RtspRequest ----------------------------
(***************************************************************************)
(* How rtsp.cpp answers one request: the parser (class Parser), the        *)
(* handler's error codes (RTSP_Handler::command) and the session's state   *)
(* machine (class Session).  A request is abstracted to what those three   *)
(* tell apart: the method word, the version word and whether the headers   *)
(* satisfy the method.  Constant-level: RtspSession and RtspServer share   *)
(* these operators.                                                        *)
(***************************************************************************)
EXTENDS Naturals

Commands == {"OPTIONS", "DESCRIBE", "SETUP", "PAUSE", "PLAY", "TEARDOWN"}

Unsupported == {"ANNOUNCE", "GET_PARAMETER", "PLAY_NOTIFY", "RECORD",
                "REDIRECT", "SET_PARAMETER"}

(* "none" stands for a message without a request line, "blank" for a line  *)
(* without a word, "other" for a word in none of the tables.  version      *)
(* "none" is a line too short to have one.                                 *)
(* ok: SETUP offers a usable transport, DESCRIBE accepts SDP.              *)
Request == [method  : Commands \cup Unsupported \cup {"KILL", "other", "blank", "none"},
            version : {"1.0", "2.0", "none"},
            ok      : BOOLEAN]

States == {"INIT", "READY", "PLAY", "DEAD"}

AllowableEarly(state) ==                              \* variant
    IF state = "INIT" THEN Commands \ {"TEARDOWN"} ELSE Commands

(* Session::allowable; it asserts that the state is not DEAD.              *)
Allowable(state) ==
    CASE state = "INIT"            -> {"SETUP", "OPTIONS", "DESCRIBE"}
      [] state \in {"READY", "PLAY"} -> Commands

NoReply == 0
OK == 200
BadRequest == 400
UnsupportedMedia == 415
NotValidInState == 455
UnsupportedTransport == 461
NotImplemented == 501
VersionNotSupported == 505

Codes == {NoReply, OK, BadRequest, UnsupportedMedia, NotValidInState,
          UnsupportedTransport, NotImplemented, VersionNotSupported}

(* Parser::parse reads a null pointer when a line has no word, which rlut  *)
(* is then to look up, and when it has no version, which strcmp is then    *)
(* given.  Only a method that no table holds is answered before that.      *)
Faults(r) == \/ r.method = "blank"
             \/ r.method \notin {"other", "none"} /\ r.version = "none"

(* The code the first line earns: the version check comes last and wins.   *)
LineCode(state, r) ==
    IF r.version # "1.0" THEN VersionNotSupported
    ELSE IF r.method \in Allowable(state) THEN OK ELSE NotValidInState

(* The code the handler of an accepted command returns.                    *)
HandlerCode(r) ==
    CASE r.method = "DESCRIBE" /\ ~r.ok -> UnsupportedMedia
      [] r.method = "SETUP"    /\ ~r.ok -> UnsupportedTransport
      [] OTHER                          -> OK

ReplyKillCode(state, r) ==                             \* variant
    IF r.method = "KILL" THEN 1 ELSE BadRequest

(* The status of the one response sent; KILL is carried out unanswered.    *)
Reply(state, r) ==
    CASE r.method = "KILL"         -> NoReply
      [] r.method \in Commands     -> IF LineCode(state, r) # OK
                                      THEN LineCode(state, r)
                                      ELSE HandlerCode(r)
      [] OTHER                     -> BadRequest

CommandAlways(state, r) == r.method                    \* variant

CommandIgnoresHandler(state, r) ==                     \* variant
    IF r.method = "KILL" \/ LineCode(state, r) = OK THEN r.method ELSE "UNKNOWN"

(* The command Parser::parse reports to Session::process.                  *)
Command(state, r) ==
    IF Reply(state, r) \in {OK, NoReply} THEN r.method ELSE "UNKNOWN"

NextStateNoPause(state, cmd) ==                       \* variant
    CASE cmd \in {"KILL", "TEARDOWN"}          -> "DEAD"
      [] state = "INIT"  /\ cmd = "SETUP"      -> "READY"
      [] state = "READY" /\ cmd = "PLAY"       -> "PLAY"
      [] OTHER                                 -> state

(* Session::process: the state that follows a command.                     *)
NextState(state, cmd) ==
    CASE cmd \in {"KILL", "TEARDOWN"}          -> "DEAD"
      [] state = "INIT"  /\ cmd = "SETUP"      -> "READY"
      [] state = "READY" /\ cmd = "PLAY"       -> "PLAY"
      [] state = "PLAY"  /\ cmd = "PAUSE"      -> "READY"
      [] OTHER                                 -> state
=============================================================================
