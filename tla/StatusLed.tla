----------------------------- MODULE StatusLed -----------------------------
(***************************************************************************)
(* The status LED: every session reports its state to one Callback         *)
(* (status.cpp), from the connections' threads and the socket server's;    *)
(* the main thread's idle loop paints what it finds.  The two share        *)
(* Callback::state without a lock.                                         *)
(***************************************************************************)
EXTENDS RtspRequest

CONSTANT Conns   \* connections, one after the other and side by side

VARIABLES session,  \* the state of each connection's session, or "none"
          state,    \* Callback::state, the last one reported
          done,     \* Callback::done, the last one painted
          toggle,   \* Callback::toggle, on or off while it blinks
          pc,       \* where on_idle is
          lit,      \* the colours of the LED that are on
          raced     \* history: state was written between two looks of one
                    \* round of on_idle, or put back to done before the last

vars == <<session, state, done, toggle, pc, lit, raced>>
idle == <<done, toggle, pc, lit>>

TypeOK == /\ session \in [Conns -> States \cup {"none"}]
          /\ state \in States /\ done \in States
          /\ toggle \in BOOLEAN
          /\ pc \in {"check", "blink", "compare", "note", "paint"}
          /\ lit \in {{}, {"blue"}, {"green"}}
          /\ raced \in BOOLEAN

Init == /\ session = [c \in Conns |-> "none"]
        /\ state = "DEAD" /\ done = "DEAD"
        /\ toggle = FALSE
        /\ pc = "check" /\ lit = {}
        /\ raced = FALSE

-----------------------------------------------------------------------------
(* Callback::on_state, called with the state's change.                     *)
OnState(s) ==
    /\ state' = s
    /\ raced' = \/ raced
                \/ s # state /\ pc \in {"blink", "paint"}
                \/ s # state /\ pc = "compare" /\ s = done

(* The sessions: created by the socket server's thread, moved on by their  *)
(* own, which reports DEAD once more when it ends.                         *)
Moves == {<<"none", "INIT">>, <<"INIT", "READY">>, <<"READY", "PLAY">>, <<"PLAY", "READY">>,
          <<"INIT", "DEAD">>, <<"READY", "DEAD">>, <<"PLAY", "DEAD">>}

SetState(c) ==
    \E s \in States :
        /\ <<session[c], s>> \in Moves
        /\ session' = [session EXCEPT ![c] = s]
        /\ OnState(s)
        /\ UNCHANGED idle

ThreadEnds(c) == /\ session[c] # "none"
                 /\ session' = [session EXCEPT ![c] = "none"]
                 /\ OnState("DEAD")
                 /\ UNCHANGED idle

-----------------------------------------------------------------------------
(* Callback::set_state: to_rgb starts from all off; INIT is not painted.   *)
Colours(s) == CASE s = "READY" -> {"blue"} [] s = "PLAY" -> {"green"} [] s = "DEAD" -> {}

PaintOver(s) == lit' = IF s = "INIT" THEN lit ELSE lit \cup Colours(s)        \* variant
PaintNotDead(s) == lit' = IF s \in {"INIT", "DEAD"} THEN lit ELSE Colours(s)  \* variant

Paint(s) == lit' = IF s = "INIT" THEN lit ELSE Colours(s)

(* Callback::on_idle.  It blinks if audio has come since, every so often.  *)
Check == /\ pc = "check"
         /\ \/ state = "PLAY" /\ toggle' = ~toggle /\ pc' = "blink"
            \/ UNCHANGED toggle /\ pc' = "compare"
         /\ UNCHANGED <<session, state, done, lit, raced>>

Blink == /\ pc = "blink"
         /\ Paint(IF toggle THEN state ELSE "DEAD")
         /\ pc' = "compare"
         /\ UNCHANGED <<session, state, done, toggle, raced>>

Compare == /\ pc = "compare"
           /\ pc' = IF state = done THEN "check" ELSE "note"
           /\ UNCHANGED <<session, state, done, toggle, lit, raced>>

Note == /\ pc = "note"
        /\ done' = state
        /\ raced' = FALSE
        /\ pc' = "paint"
        /\ UNCHANGED <<session, state, toggle, lit>>

(* The build may read state again for the LED or use what done was set to. *)
PaintState == /\ pc = "paint"
              /\ \E s \in {state, done} : Paint(s)
              /\ pc' = "check"
              /\ UNCHANGED <<session, state, done, toggle, raced>>

OnIdle == Check \/ Blink \/ Compare \/ Note \/ PaintState

Next == OnIdle \/ \E c \in Conns : SetState(c) \/ ThreadEnds(c)

Spec == Init /\ [][Next]_vars

(* The main thread is idle again and again; sessions owe nothing.          *)
FairSpec == Spec /\ WF_vars(OnIdle)

-----------------------------------------------------------------------------
Shows(s) == IF s = "PLAY" THEN {{}, Colours(s)} ELSE {Colours(s)}   \* it blinks

(* Between two rounds of the idle loop the LED shows the state painted     *)
(* last, blinking or not, unless a session changed it in between.          *)
AgreesWithDone == pc = "check" /\ ~raced /\ done # "INIT" => lit \in Shows(done)

(* Once no session changes its state any more the LED comes to show the    *)
(* state reported last (status.cpp:88 "Notify the state change"), unless   *)
(* it changed and changed back within a round.                             *)
Settles == \A s \in States \ {"INIT"} :
             <>[](state = s) => <>[](lit \in Shows(s) \/ raced)
=============================================================================
